---- MODULE Spec2Model ----
(***************************************************************************)
(* Model of the OpenClaw Zoom voice agent: the ZoomDialer state machine   *)
(* and session registry of bridge.js, and the turn lock / audio gate of   *)
(* gemini-live-agent.js, the Gemini hybrid agent and m3-voice-agent.js.   *)
(*                                                                         *)
(* Every program is one specification over its own group of variables:    *)
(*   Spec        bridge.js          ZoomDialer + HTTP/webhook endpoints    *)
(*   SpecLive    gemini-live-agent  main(), speak lock, media gate         *)
(*   SpecHybrid  hybrid agent       main(), speak lock, media forwarding   *)
(*   SpecM3      m3-voice-agent     main(), speakText, webhook             *)
(* Timers are modelled untimed: a pending timer may fire at any later     *)
(* step, which over-approximates every real schedule of the event loop.   *)
(***************************************************************************)
EXTENDS Integers, Sequences, FiniteSets, TLC

(***************************************************************************)
(* Bounds of the model (not program constants).                            *)
(***************************************************************************)
MaxAnswered == 2        \* deliveries of call.answered per session
MaxHangupInFlight == 1  \* concurrent POST /api/call/:id/hangup requests
MaxSpeaks == 2          \* speak requests issued by an agent script
MaxFrames == 2          \* inbound media frames delivered to an agent script
MaxWords == 2           \* words of a text handed to speak
MaxSegments == 2        \* final transcripts accumulated before a reply
MaxLlmInFlight == 1     \* concurrent processAndRespond() completions
MaxFrameLen == 3        \* mu-law samples of one inbound media frame
MaxTurns == 3           \* text responses Gemini completes during one call
MaxStreams == 2         \* media socket connections of one run
MaxSessions == 2        \* sessions POST /api/call creates in one run
MaxBridgeFrames == 2    \* media frames delivered to the /media socket
MaxAudioOut == 2        \* audio parts Gemini returns in one run

(***************************************************************************)
(* Program constants.                                                      *)
(***************************************************************************)
maxRetries == 3         \* bridge.js:71  this.maxRetries = 3

GreetingWords == 15     \* bridge.js:939  words of the hybrid agent's greeting

Null == 0               \* callControlId = null (no call leg yet)
Undefined == -1         \* call_control_id absent from a webhook payload
Sid == 1                \* the session id crypto.randomUUID() returned
NaN == 65536            \* a _lastSample that is undefined (no int16 value)

Hash == "#"
ScenarioId == <<"8","3","9","1","4","0","7","6","3","9","9">>

\* Inputs of POST /api/call: identifiers (one with whitespace, which
\* enterMeetingId strips, and a letter) and passcodes ('' when absent).
MeetingIds == { ScenarioId, <<"8"," ","x">> }
Passcodes  == { <<>>, <<"1","2">> }

\* the characters \d matches
Digit == {"0","1","2","3","4","5","6","7","8","9"}

Whitespace == {" ", "\t", "\n"}

VARIABLES
  \* ---- bridge.js: ZoomDialer fields and the session registry ----
  sessions,        \* keys of the `sessions` Map
  meetingId,       \* dialer.meetingId
  passcode,        \* dialer.passcode
  state,           \* dialer.state
  callControlId,   \* dialer.callControlId
  retryCount,      \* dialer.retryCount
  answerTimeout,   \* dialer._answerTimeout: handle of the last answer timer
  \* ---- pending asynchronous work of the session ----
  dialInFlight,    \* POST /calls requests awaiting their response
  answerTimers,    \* armed answer timers (their handles)
  enterTimers,     \* armed settle-delay timers -> enterMeetingId()
  idAwait,         \* enterMeetingId() calls awaiting their send_dtmf
  groupTimers,     \* armed group-delay timers -> enterPasscode()
  passAwait,       \* enterPasscode() calls awaiting their send_dtmf
  joinTimers,      \* armed join-confirm timers -> confirmJoined()
  retryTimers,     \* armed retry backoff timers -> dial()
  hangupInFlight,  \* hangup() calls awaiting POST .../actions/hangup
  \* ---- what the telephony collaborator and the listeners observed ----
  callsCreated,    \* call legs created by POST /calls
  dtmfLog,         \* send_dtmf requests issued, in order
  dialCount,       \* POST /calls requests issued
  failures,        \* handleFailure() calls
  joinedCount,     \* 'joined' events emitted
  answeredCount,   \* call.answered webhooks dispatched to the dialer
  lastReason,      \* reason of the last handleFailure() call
  failedLog,       \* 'failed' events emitted: { reason, retries }
  dtmfRejected,    \* send_dtmf requests that threw: { field, call }
  hangupAsked,     \* call legs a POST .../actions/hangup was issued for
  hangupCompleted, \* a hangup() call has returned
  answeredLegs,    \* legs with a call.answered posted, answer timeout to come
  endedPending,    \* the session was ENDED while a retry backoff was armed
  \* ---- the agent scripts (gemini-live-agent, hybrid agent, m3) ----
  pc,              \* position of main()
  inMeeting,       \* inMeeting (gemini-live-agent) / isInMeeting (m3)
  isSpeaking,      \* the turn lock
  speakSafetyTimer,\* the safety timer is armed
  safetyMs,        \* delay the safety timer was armed with
  speakReqs,       \* speak requests awaiting their response
  playing,         \* accepted speak actions whose playback has not ended
  speakCount,      \* speak requests issued
  framesIn,        \* inbound media frames received
  sendAudioCount,  \* gemini.sendAudio() calls
  lastClear,       \* what cleared the lock last, since the last speak
  fwdSinceSpeak,   \* a frame was forwarded since the last speak began
  \* ---- m3-voice-agent.js only ----
  NO_SPEAK,        \* process.env.NO_SPEAK === 'true'
  transcriptBuffer,\* final transcripts accumulated (their number)
  bufferTimer,     \* the BUFFER_DELAY timer is armed
  llmInFlight      \* processAndRespond() calls awaiting the completion

dialerVars == << sessions, meetingId, passcode, state, callControlId,
                 retryCount, answerTimeout, dialInFlight, answerTimers,
                 enterTimers, idAwait, groupTimers, passAwait, joinTimers,
                 retryTimers, hangupInFlight, callsCreated, dtmfLog,
                 dialCount, failures, joinedCount, answeredCount,
                 lastReason, failedLog, dtmfRejected, hangupAsked,
                 hangupCompleted, answeredLegs, endedPending >>

\* the ZoomDialer fields the agent scripts have no counterpart of
dialerRest == << sessions, state, retryCount, answerTimeout, dialInFlight,
                 answerTimers, enterTimers, idAwait, groupTimers, passAwait,
                 joinTimers, retryTimers, hangupInFlight, callsCreated,
                 dialCount, failures, joinedCount, answeredCount,
                 lastReason, failedLog, dtmfRejected, hangupAsked,
                 hangupCompleted, answeredLegs, endedPending >>

agentVars == << pc, inMeeting, isSpeaking, speakSafetyTimer, safetyMs,
                speakReqs, playing, speakCount, framesIn, sendAudioCount,
                lastClear, fwdSinceSpeak >>

m3Vars == << NO_SPEAK, transcriptBuffer, bufferTimer, llmInFlight >>

VARIABLES
  \* ---- the transcoders, fed one inbound stream frame by frame ----
  lastSample,      \* _lastSample of gemini-live-agent.js
  prevFrame,       \* the frame decoded before the current one (A)
  frame,           \* the frame decoded last (B)
  pcmLive,         \* ulawToPcm16k(frame) of gemini-live-agent.js
  pcmHybrid,       \* ulawToPcm16k(frame) of the hybrid agent
  ulawBack,        \* pcm24kToUlaw8k applied to a decoder's output
  encodedFrom,     \* the decoder whose output was encoded: "live", "hybrid"
  streams,         \* media socket connections accepted so far
  streamFresh      \* no frame of the current connection was decoded yet

codecVars == << lastSample, prevFrame, frame, pcmLive, pcmHybrid,
                ulawBack, encodedFrom, streams, streamFresh >>

VARIABLES
  \* ---- pcmToUlaw / ULAW_DECODE applied to one value ----
  cIn,             \* the 16-bit sample (or the byte) handed in
  cOp,             \* "none", "encode" (pcmToUlaw), "decode" (ULAW_DECODE[])
  cOut             \* what came back

compandVars == << cIn, cOp, cOut >>

VARIABLES
  \* ---- one call of a Telnyx REST helper (api / telnyxApi / tAPI) ----
  apiRetries,      \* the retries parameter
  apiAttempt,      \* the loop variable attempt
  apiPc,           \* "idle", "fetch" (awaiting fetch), "sleep", "data", "error"
  apiRequests,     \* fetch calls issued by this call of the helper
  apiDelays,       \* the sleep() arguments of this call, in order
  apiErrors        \* how each failed attempt of this call ended, in order

apiVars == << apiRetries, apiAttempt, apiPc, apiRequests, apiDelays,
              apiErrors >>

VARIABLES
  textTurns,       \* text responses received while the call exists
  idleEnds         \* history: call.speak.ended events handled while
                   \* isSpeaking was already false

auxVars == << compandVars, apiVars, idleEnds, textTurns >>

VARIABLES
  \* ---- bridge.js with several sessions: registry, webhook and media routing
  regOrder,        \* keys of the `sessions` Map, in insertion order
  regCreated,      \* session ids POST /api/call has handed out
  regCcid,         \* session id -> dialer.callControlId
  regState,        \* session id -> dialer.state
  regDialing,      \* sessions whose POST /calls awaits its response
  regLegs,         \* call legs created by POST /calls
  regAudio,        \* session id -> bridge.audioBuffer (the leg of each frame)
  regFrames,       \* media frames received on the media socket
  regDispatch      \* the last webhook: its id, the sessions that matched,
                   \* the sessions whose handleEvent ran

regVars == << regOrder, regCreated, regCcid, regState, regDialing, regLegs,
              regAudio, regFrames, regDispatch >>

VARIABLES
  \* ---- the hybrid agent's two ways of delivering speech ----
  USE_GEMINI_AUDIO,\* const USE_GEMINI_AUDIO: false as shipped (Gemini text +
                   \* Telnyx speak), true selects Gemini audio output
  responseBuffer,  \* responseBuffer (the words of its text; 0 when empty)
  telnyxMediaWs,   \* the media socket is connected
  audioOutCount    \* raw audio chunks sent to the call on the media socket

hybridVars == << USE_GEMINI_AUDIO, responseBuffer, telnyxMediaWs,
                 audioOutCount >>

VARIABLES
  \* ---- server.js: one Retell connection and its IVRHandler ----
  rMeetingId,      \* metadata.meeting_id
  rPasscode,       \* metadata.passcode
  ivrState,        \* ivr.state
  ivrRetry,        \* ivr.retryCount
  greetingSent,    \* greetingSent
  dtmfLoops,       \* the running dtmf loops: response_id, digits to press
  wsSent,          \* the messages sent to Retell on the socket, in order
  responseCount,   \* response_required / reminder_required messages received
  llmStreams       \* response_ids whose LLM completion is being awaited

retellVars == << rMeetingId, rPasscode, ivrState, ivrRetry, greetingSent,
                 dtmfLoops, wsSent, responseCount, llmStreams >>

\* the state of the programs a specification does not run
otherVars == << codecVars, regVars, hybridVars, retellVars, auxVars >>

vars == << dialerVars, agentVars, m3Vars, otherVars >>

\* let _lastSample = 0; no frame decoded yet
CodecIdle ==
  /\ lastSample = 0
  /\ prevFrame = <<>>
  /\ frame = <<>>
  /\ pcmLive = <<>>
  /\ pcmHybrid = <<>>
  /\ ulawBack = <<>>
  /\ encodedFrom = "none"
  /\ streams = 0
  /\ streamFresh = TRUE

\* no value handed to the companding functions
CompandIdle ==
  /\ cIn = 0
  /\ cOp = "none"
  /\ cOut = 0

\* no REST helper call in progress
ApiIdle ==
  /\ apiRetries = 0
  /\ apiAttempt = 0
  /\ apiPc = "idle"
  /\ apiRequests = 0
  /\ apiDelays = <<>>
  /\ apiErrors = <<>>

AuxIdle == CompandIdle /\ ApiIdle /\ idleEnds = 0 /\ textTurns = 0

\* ids crypto.randomUUID() hands out
SessionIds == 1..MaxSessions

\* const sessions = new Map(): no session, no call leg, no frame
RegIdle ==
  /\ regOrder = <<>>
  /\ regCreated = 0
  /\ regCcid = [ s \in SessionIds |-> Null ]
  /\ regState = [ s \in SessionIds |-> "IDLE" ]
  /\ regDialing = {}
  /\ regLegs = 0
  /\ regAudio = [ s \in SessionIds |-> <<>> ]
  /\ regFrames = 0
  /\ regDispatch = [ ccid |-> Undefined, matching |-> {}, to |-> {} ]

\* the hybrid agent before main(): text mode, nothing buffered or sent
HybridIdle ==
  /\ USE_GEMINI_AUDIO = FALSE
  /\ responseBuffer = 0
  /\ telnyxMediaWs = FALSE
  /\ audioOutCount = 0

\* new IVRHandler(meetingId, passcode); nothing sent on the socket yet
RetellIdle ==
  /\ rMeetingId = <<>>
  /\ rPasscode = <<>>
  /\ ivrState = "WAITING"
  /\ ivrRetry = 0
  /\ greetingSent = FALSE
  /\ dtmfLoops = <<>>
  /\ wsSent = <<>>
  /\ responseCount = 0
  /\ llmStreams = <<>>

OtherIdle == CodecIdle /\ RegIdle /\ HybridIdle /\ RetellIdle /\ AuxIdle

(***************************************************************************)
(* bridge.js: ZoomDialer                                                   *)
(***************************************************************************)

\* this.meetingId.replace(/\s/g, '')
StripWs(s) == SelectSeq(s, LAMBDA c : c \notin Whitespace)

\* constructor(config): the fields of a new ZoomDialer, and an empty registry
DialerIdle ==
  /\ sessions = {}
  /\ state = "IDLE"
  /\ retryCount = 0
  /\ answerTimeout = Null
  /\ dialInFlight = 0
  /\ answerTimers = {}
  /\ enterTimers = 0
  /\ idAwait = 0
  /\ groupTimers = 0
  /\ passAwait = 0
  /\ joinTimers = 0
  /\ retryTimers = 0
  /\ hangupInFlight = 0
  /\ callsCreated = 0
  /\ dialCount = 0
  /\ failures = 0
  /\ joinedCount = 0
  /\ answeredCount = 0
  /\ lastReason = "none"
  /\ failedLog = <<>>
  /\ dtmfRejected = {}
  /\ hangupAsked = {}
  /\ hangupCompleted = FALSE
  /\ answeredLegs = {}
  /\ endedPending = FALSE

\* the module-level state of an agent script before main() runs
AgentIdle ==
  /\ pc = "dial"
  /\ inMeeting = FALSE
  /\ isSpeaking = FALSE
  /\ speakSafetyTimer = FALSE
  /\ safetyMs = 0
  /\ speakReqs = 0
  /\ playing = 0
  /\ speakCount = 0
  /\ framesIn = 0
  /\ sendAudioCount = 0
  /\ lastClear = "none"
  /\ fwdSinceSpeak = FALSE
  /\ transcriptBuffer = 0
  /\ bufferTimer = FALSE
  /\ llmInFlight = 0

\* bridge.js after server.listen: no session yet
DialerInit ==
  /\ DialerIdle
  /\ OtherIdle
  /\ meetingId = <<>>
  /\ passcode = <<>>
  /\ callControlId = Null
  /\ dtmfLog = <<>>
  /\ AgentIdle
  /\ NO_SPEAK = FALSE

\* a dial() without its state guard
DialUnguarded ==
  /\ state' = "DIALING"
  /\ dialInFlight' = dialInFlight + 1
  /\ dialCount' = dialCount + 1

\* dial(), up to the await of POST /calls
Dial ==
  IF state \in {"IDLE", "FAILED"}
  THEN /\ state' = "DIALING"
       /\ dialInFlight' = dialInFlight + 1
       /\ dialCount' = dialCount + 1
  ELSE UNCHANGED << state, dialInFlight, dialCount >>

\* handleFailure with the retry test off by one (retries once too often)
HandleFailureOffByOne(reason) ==
  /\ failures' = failures + 1
  /\ lastReason' = reason
  /\ IF retryCount <= maxRetries
     THEN /\ retryCount' = retryCount + 1
          /\ state' = "IDLE"
          /\ retryTimers' = retryTimers + 1
          /\ UNCHANGED << sessions, failedLog >>
     ELSE /\ state' = "FAILED"
          /\ failedLog' = Append(failedLog, [reason |-> reason,
                                             retries |-> retryCount])
          /\ sessions' = sessions \ {Sid}
          /\ UNCHANGED << retryCount, retryTimers >>

\* handleFailure(reason); the 'failed' listener of /api/call removes the session
HandleFailure(reason) ==
  /\ failures' = failures + 1
  /\ lastReason' = reason
  /\ IF retryCount < maxRetries
     THEN /\ retryCount' = retryCount + 1
          /\ state' = "IDLE"
          /\ retryTimers' = retryTimers + 1
          /\ UNCHANGED << sessions, failedLog >>
     ELSE /\ state' = "FAILED"
          /\ failedLog' = Append(failedLog, [reason |-> reason,
                                             retries |-> retryCount])
          /\ sessions' = sessions \ {Sid}
          /\ UNCHANGED << retryCount, retryTimers >>

\* POST /api/call: 400 without a meetingId; otherwise registers the session
\* and calls dialer.dial()
ApiCall(m, p) ==
  /\ sessions = {} /\ dialCount = 0
  /\ m # <<>>
  /\ sessions' = {Sid}
  /\ meetingId' = m
  /\ passcode' = p
  /\ Dial
  /\ UNCHANGED << callControlId, retryCount, answerTimeout, answerTimers,
                  enterTimers, idAwait, groupTimers, passAwait, joinTimers,
                  retryTimers, hangupInFlight, callsCreated, dtmfLog,
                  failures, joinedCount, answeredCount >>

\* dial(): POST /calls succeeded; callControlId assigned, answer timer armed
DialOk ==
  /\ dialInFlight > 0
  /\ dialInFlight' = dialInFlight - 1
  /\ callsCreated' = callsCreated + 1
  /\ callControlId' = callsCreated + 1
  /\ answerTimeout' = callsCreated + 1
  /\ answerTimers' = answerTimers \cup {callsCreated + 1}
  /\ UNCHANGED << sessions, meetingId, passcode, state, retryCount,
                  enterTimers, idAwait, groupTimers, passAwait, joinTimers,
                  retryTimers, hangupInFlight, dtmfLog, dialCount, failures,
                  joinedCount, answeredCount >>

\* a catch block of dial() that gives up at once instead of retrying
DialFailTerminal ==
  /\ dialInFlight > 0
  /\ dialInFlight' = dialInFlight - 1
  /\ failures' = failures + 1
  /\ lastReason' = "DIAL_ERROR"
  /\ state' = "FAILED"
  /\ failedLog' = Append(failedLog, [reason |-> "DIAL_ERROR",
                                     retries |-> retryCount])
  /\ sessions' = sessions \ {Sid}
  /\ UNCHANGED << meetingId, passcode, callControlId, answerTimeout,
                  answerTimers, enterTimers, idAwait, groupTimers, passAwait,
                  joinTimers, hangupInFlight, callsCreated, dtmfLog,
                  dialCount, joinedCount, answeredCount, retryCount,
                  retryTimers >>

\* dial(): POST /calls threw -> handleFailure('DIAL_ERROR')
DialFail ==
  /\ dialInFlight > 0
  /\ dialInFlight' = dialInFlight - 1
  /\ HandleFailure("DIAL_ERROR")
  /\ UNCHANGED << meetingId, passcode, callControlId, answerTimeout,
                  answerTimers, enterTimers, idAwait, groupTimers, passAwait,
                  joinTimers, hangupInFlight, callsCreated, dtmfLog,
                  dialCount, joinedCount, answeredCount >>

\* the answer timer's callback
AnswerTimerFire(t) ==
  /\ t \in answerTimers
  /\ answerTimers' = answerTimers \ {t}
  /\ IF state = "DIALING"
     THEN HandleFailure("NO_ANSWER")
     ELSE UNCHANGED << failures, retryCount, state, retryTimers, sessions,
                       lastReason, failedLog >>
  /\ UNCHANGED << meetingId, passcode, callControlId, answerTimeout,
                  dialInFlight, enterTimers, idAwait, groupTimers, passAwait,
                  joinTimers, hangupInFlight, callsCreated, dtmfLog,
                  dialCount, joinedCount, answeredCount >>

\* the retry backoff timer's callback: () => this.dial()
RetryTimerFire ==
  /\ retryTimers > 0
  /\ retryTimers' = retryTimers - 1
  /\ Dial
  /\ UNCHANGED << sessions, meetingId, passcode, callControlId, retryCount,
                  answerTimeout, answerTimers, enterTimers, idAwait,
                  groupTimers, passAwait, joinTimers, hangupInFlight,
                  callsCreated, dtmfLog, failures, joinedCount,
                  answeredCount >>

\* a handleEvent whose call.answered branch forgets clearTimeout
HandleEventKeepsTimer(eventType) ==
  CASE eventType = "call.answered" ->
         /\ state' = "ANSWERED"
         /\ enterTimers' = enterTimers + 1
         /\ answeredCount' = answeredCount + 1
         /\ UNCHANGED << sessions, answerTimers >>
    [] eventType = "call.hangup" ->
         /\ state' = "ENDED"
         /\ sessions' = sessions \ {Sid}
         /\ UNCHANGED << answerTimers, enterTimers, answeredCount >>
    [] OTHER ->
         UNCHANGED << answerTimers, state, enterTimers, answeredCount,
                      sessions >>

\* handleEvent(event)
HandleEvent(eventType) ==
  CASE eventType = "call.answered" ->
         /\ answerTimers' = answerTimers \ {answerTimeout}
         /\ state' = "ANSWERED"
         /\ enterTimers' = enterTimers + 1
         /\ answeredCount' = answeredCount + 1
         /\ UNCHANGED sessions
    [] eventType = "call.hangup" ->
         /\ state' = "ENDED"
         /\ sessions' = sessions \ {Sid}
         /\ UNCHANGED << answerTimers, enterTimers, answeredCount >>
    [] OTHER ->
         UNCHANGED << answerTimers, state, enterTimers, answeredCount,
                      sessions >>

\* POST /webhook/telnyx: dispatch to the session whose call leg matches
Webhook(eventType, ccid) ==
  /\ eventType = "call.answered" => answeredCount < MaxAnswered
  /\ IF Sid \in sessions /\ callControlId = ccid
     THEN HandleEvent(eventType)
     ELSE UNCHANGED << answerTimers, state, enterTimers, answeredCount,
                       sessions >>
  /\ UNCHANGED << meetingId, passcode, callControlId, retryCount,
                  answerTimeout, dialInFlight, idAwait, groupTimers,
                  passAwait, joinTimers, retryTimers, hangupInFlight,
                  callsCreated, dtmfLog, dialCount, failures, joinedCount >>

\* sendDTMF(digits): one send_dtmf request carrying the whole string
SendDTMF(field, digits) ==
  dtmfLog' = Append(dtmfLog, [field |-> field, digits |-> digits,
                              call |-> callControlId])

\* enterMeetingId(), up to the await of sendDTMF
EnterMeetingId ==
  /\ state' = "ENTER_MEETING_ID"
  /\ SendDTMF("id", StripWs(meetingId) \o <<Hash>>)
  /\ idAwait' = idAwait + 1

\* the settle-delay timer's callback: () => this.enterMeetingId()
EnterTimerFire ==
  /\ enterTimers > 0
  /\ enterTimers' = enterTimers - 1
  /\ EnterMeetingId
  /\ UNCHANGED << sessions, meetingId, passcode, callControlId, retryCount,
                  answerTimeout, dialInFlight, answerTimers, groupTimers,
                  passAwait, joinTimers, retryTimers, hangupInFlight,
                  callsCreated, dialCount, failures, joinedCount,
                  answeredCount >>

\* enterMeetingId() after sendDTMF returned (it swallows a failed request):
\* arms the group-delay timer
IdDtmfDone ==
  /\ idAwait > 0
  /\ idAwait' = idAwait - 1
  /\ groupTimers' = groupTimers + 1
  /\ UNCHANGED << sessions, meetingId, passcode, state, callControlId,
                  retryCount, answerTimeout, dialInFlight, answerTimers,
                  enterTimers, passAwait, joinTimers, retryTimers,
                  hangupInFlight, callsCreated, dtmfLog, dialCount, failures,
                  joinedCount, answeredCount >>

\* sendDTMF's try / catch: a send_dtmf request that throws is logged and
\* swallowed, the caller sees the same return either way
SendDTMFSettled(field, ok) ==
  dtmfRejected' = IF ok THEN dtmfRejected
                  ELSE dtmfRejected \cup {[field |-> field,
                                           call |-> callControlId]}

\* the identifier's send_dtmf request settles and enterMeetingId() goes on
IdDtmfSettle(ok) == IdDtmfDone /\ SendDTMFSettled("id", ok)

\* enterPasscode(), up to the await of sendDTMF
EnterPasscode ==
  /\ state' = "ENTER_PASSCODE"
  /\ IF passcode # <<>>
     THEN SendDTMF("pass", passcode \o <<Hash>>)
     ELSE SendDTMF("pass", <<Hash>>)
  /\ passAwait' = passAwait + 1

\* the group-delay timer's callback
GroupTimerFire ==
  /\ groupTimers > 0
  /\ groupTimers' = groupTimers - 1
  /\ IF state = "ENTER_MEETING_ID"
     THEN EnterPasscode
     ELSE UNCHANGED << state, dtmfLog, passAwait >>
  /\ UNCHANGED << sessions, meetingId, passcode, callControlId, retryCount,
                  answerTimeout, dialInFlight, answerTimers, enterTimers,
                  idAwait, joinTimers, retryTimers, hangupInFlight,
                  callsCreated, dialCount, failures, joinedCount,
                  answeredCount >>

\* enterPasscode() after sendDTMF returned: arms the join-confirm timer
PassDtmfDone ==
  /\ passAwait > 0
  /\ passAwait' = passAwait - 1
  /\ joinTimers' = joinTimers + 1
  /\ UNCHANGED << sessions, meetingId, passcode, state, callControlId,
                  retryCount, answerTimeout, dialInFlight, answerTimers,
                  enterTimers, idAwait, groupTimers, retryTimers,
                  hangupInFlight, callsCreated, dtmfLog, dialCount, failures,
                  joinedCount, answeredCount >>

\* the passcode's send_dtmf request settles and enterPasscode() goes on
PassDtmfSettle(ok) == PassDtmfDone /\ SendDTMFSettled("pass", ok)

\* confirmJoined()
ConfirmJoined ==
  /\ state' = "IN_MEETING"
  /\ joinedCount' = joinedCount + 1

\* the join-confirm timer's callback
JoinTimerFire ==
  /\ joinTimers > 0
  /\ joinTimers' = joinTimers - 1
  /\ IF state = "ENTER_PASSCODE"
     THEN ConfirmJoined
     ELSE UNCHANGED << state, joinedCount >>
  /\ UNCHANGED << sessions, meetingId, passcode, callControlId, retryCount,
                  answerTimeout, dialInFlight, answerTimers, enterTimers,
                  idAwait, groupTimers, passAwait, retryTimers,
                  hangupInFlight, callsCreated, dtmfLog, dialCount, failures,
                  answeredCount >>

\* hangup() whose route forgets sessions.delete(id)
HangupFinishKeepsSession ==
  /\ state' = "ENDED"
  /\ UNCHANGED sessions

\* hangup() after its REST request (if any) returned or threw, followed by
\* sessions.delete(id) of POST /api/call/:id/hangup
HangupFinish ==
  /\ state' = "ENDED"
  /\ sessions' = sessions \ {Sid}

\* POST /api/call/:id/hangup: 404 for an unknown session; hangup() awaits the
\* REST request only when a call leg exists
HangupRequest ==
  /\ Sid \in sessions
  /\ hangupInFlight < MaxHangupInFlight
  /\ IF callControlId # Null
     THEN /\ hangupInFlight' = hangupInFlight + 1
          /\ UNCHANGED << state, sessions >>
     ELSE /\ HangupFinish
          /\ UNCHANGED hangupInFlight
  /\ UNCHANGED << meetingId, passcode, callControlId, retryCount,
                  answerTimeout, dialInFlight, answerTimers, enterTimers,
                  idAwait, groupTimers, passAwait, joinTimers, retryTimers,
                  callsCreated, dtmfLog, dialCount, failures, joinedCount,
                  answeredCount >>

\* the hangup REST request resolved or rejected (the error is only logged)
HangupDone ==
  /\ hangupInFlight > 0
  /\ hangupInFlight' = hangupInFlight - 1
  /\ HangupFinish
  /\ UNCHANGED << meetingId, passcode, callControlId, retryCount,
                  answerTimeout, dialInFlight, answerTimers, enterTimers,
                  idAwait, groupTimers, passAwait, joinTimers, retryTimers,
                  callsCreated, dtmfLog, dialCount, failures, joinedCount,
                  answeredCount >>

\* call_control_id values a webhook can carry: a leg that exists, or none
EventIds == (1..callsCreated) \cup {Undefined}

Init == DialerInit

\* what the steps leave of the observations they do not make
dialerSeen == << hangupAsked, hangupCompleted, answeredLegs, endedPending >>

Next ==
  \/ (\E m \in MeetingIds, p \in Passcodes : ApiCall(m, p))
       /\ UNCHANGED << lastReason, failedLog, dtmfRejected, dialerSeen, agentVars, m3Vars, otherVars >>
  \/ DialOk /\ UNCHANGED << lastReason, failedLog, dtmfRejected, dialerSeen, agentVars, m3Vars, otherVars >>
  \/ DialFail /\ UNCHANGED << dtmfRejected, dialerSeen, agentVars, m3Vars, otherVars >>
  \/ (\E t \in answerTimers : AnswerTimerFire(t)) /\ UNCHANGED << dtmfRejected, dialerSeen, agentVars, m3Vars, otherVars >>
  \/ RetryTimerFire /\ UNCHANGED << lastReason, failedLog, dtmfRejected, dialerSeen, agentVars, m3Vars, otherVars >>
  \/ (\E e \in {"call.answered", "call.hangup", "call.dtmf.received"},
         c \in EventIds : Webhook(e, c)) /\ UNCHANGED << lastReason, failedLog, dtmfRejected, dialerSeen, agentVars, m3Vars, otherVars >>
  \/ EnterTimerFire /\ UNCHANGED << lastReason, failedLog, dtmfRejected, dialerSeen, agentVars, m3Vars, otherVars >>
  \/ (\E ok \in BOOLEAN : IdDtmfSettle(ok))
       /\ UNCHANGED << lastReason, failedLog, dialerSeen, agentVars, m3Vars, otherVars >>
  \/ GroupTimerFire /\ UNCHANGED << lastReason, failedLog, dtmfRejected, dialerSeen, agentVars, m3Vars, otherVars >>
  \/ (\E ok \in BOOLEAN : PassDtmfSettle(ok))
       /\ UNCHANGED << lastReason, failedLog, dialerSeen, agentVars, m3Vars, otherVars >>
  \/ JoinTimerFire /\ UNCHANGED << lastReason, failedLog, dtmfRejected, dialerSeen, agentVars, m3Vars, otherVars >>
  \/ HangupRequest /\ UNCHANGED << lastReason, failedLog, dtmfRejected, dialerSeen, agentVars, m3Vars, otherVars >>
  \/ HangupDone /\ UNCHANGED << lastReason, failedLog, dtmfRejected, dialerSeen, agentVars, m3Vars, otherVars >>

Spec == Init /\ [][Next]_vars

(***************************************************************************)
(* The same session with the call legs observed from Telnyx's side: which  *)
(* legs were answered, which were asked to hang up.  A call.answered may   *)
(* be posted for the leg of a POST /calls whose response dial() has not    *)
(* processed yet.  One meeting, to keep the state space small.             *)
(***************************************************************************)
\* the leg Telnyx created for a POST /calls that is still awaited
PendingLeg == IF dialInFlight > 0 THEN {callsCreated + 1} ELSE {}

LegEventIds == EventIds \cup PendingLeg

LegsNext ==
  \/ ApiCall(ScenarioId, <<>>)
       /\ UNCHANGED << lastReason, failedLog, dtmfRejected, dialerSeen, agentVars, m3Vars, otherVars >>
  \/ DialOk /\ UNCHANGED << lastReason, failedLog, dtmfRejected, dialerSeen, agentVars, m3Vars, otherVars >>
  \/ /\ (callsCreated + 1) \notin answeredLegs  \* an answered leg was created
     /\ DialFail
     /\ UNCHANGED << dtmfRejected, dialerSeen, agentVars, m3Vars, otherVars >>
  \/ \E t \in answerTimers :
       /\ AnswerTimerFire(t)
       /\ answeredLegs' = answeredLegs \ {t}
       /\ UNCHANGED << dtmfRejected, hangupAsked, hangupCompleted, endedPending, agentVars, m3Vars, otherVars >>
  \/ RetryTimerFire /\ UNCHANGED << lastReason, failedLog, dtmfRejected, dialerSeen, agentVars, m3Vars, otherVars >>
  \/ \E e \in {"call.answered", "call.hangup", "call.dtmf.received"},
        c \in LegEventIds :
       /\ Webhook(e, c)
       /\ answeredLegs' =
            (IF e = "call.answered" THEN answeredLegs \cup {c} ELSE answeredLegs)
              \cap (answerTimers' \cup PendingLeg)
       /\ endedPending' = (endedPending \/ (state' = "ENDED" /\ retryTimers' > 0))
       /\ UNCHANGED << lastReason, failedLog, dtmfRejected, hangupAsked, hangupCompleted, agentVars, m3Vars, otherVars >>
  \/ EnterTimerFire /\ UNCHANGED << lastReason, failedLog, dtmfRejected, dialerSeen, agentVars, m3Vars, otherVars >>
  \/ (\E ok \in BOOLEAN : IdDtmfSettle(ok))
       /\ UNCHANGED << lastReason, failedLog, dialerSeen, agentVars, m3Vars, otherVars >>
  \/ GroupTimerFire /\ UNCHANGED << lastReason, failedLog, dtmfRejected, dialerSeen, agentVars, m3Vars, otherVars >>
  \/ (\E ok \in BOOLEAN : PassDtmfSettle(ok))
       /\ UNCHANGED << lastReason, failedLog, dialerSeen, agentVars, m3Vars, otherVars >>
  \/ JoinTimerFire /\ UNCHANGED << lastReason, failedLog, dtmfRejected, dialerSeen, agentVars, m3Vars, otherVars >>
  \/ /\ HangupRequest
     /\ hangupAsked' = IF callControlId # Null
                       THEN hangupAsked \cup {callControlId} ELSE hangupAsked
     /\ hangupCompleted' = (hangupCompleted \/ callControlId = Null)
     /\ endedPending' = (endedPending \/ (state' = "ENDED" /\ retryTimers' > 0))
     /\ UNCHANGED << lastReason, failedLog, dtmfRejected, answeredLegs, agentVars, m3Vars, otherVars >>
  \/ /\ HangupDone
     /\ hangupCompleted' = TRUE
     /\ endedPending' = (endedPending \/ (state' = "ENDED" /\ retryTimers' > 0))
     /\ UNCHANGED << lastReason, failedLog, dtmfRejected, hangupAsked, answeredLegs, agentVars, m3Vars, otherVars >>

SpecLegs == Init /\ [][LegsNext]_vars

(***************************************************************************)
(* gemini-live-agent.js: main(), the speak lock and the media gate         *)
(***************************************************************************)

\* process.argv -m / -p; module state before main() dials
LiveInit ==
  /\ DialerIdle
  /\ OtherIdle
  /\ meetingId \in MeetingIds
  /\ passcode \in Passcodes
  /\ callControlId = Null
  /\ dtmfLog = <<>>
  /\ AgentIdle
  /\ NO_SPEAK = FALSE

\* const estimatedMs = wordCount * 400 + 5000
EstimatedMs(wordCount) == wordCount * 400 + 5000

\* texts handed to the speak path, by their text.split(/\s+/).length
Texts == 1..MaxWords

\* cleanup(tunnel, gemini) / main().catch -> process.exit
Exit == pc' = "exited"

\* main(): POST /calls; a rejected request is fatal
LiveDial(ok) ==
  /\ pc = "dial"
  /\ IF ok THEN callControlId' = 1 /\ pc' = "ivr"
           ELSE Exit /\ UNCHANGED callControlId
  /\ UNCHANGED << meetingId, passcode, dtmfLog, dialerRest, m3Vars, otherVars, inMeeting,
                  isSpeaking, speakSafetyTimer, safetyMs, speakReqs, playing,
                  speakCount, framesIn, sendAudioCount, lastClear,
                  fwdSinceSpeak >>

\* one step of the DTMF join sequence of main(): is_alive check, then one
\* send_dtmf request carrying `digits`
MainDtmfStep(ok, field, digits, next) ==
  /\ IF ok THEN SendDTMF(field, digits) /\ pc' = next
           ELSE Exit /\ UNCHANGED dtmfLog
  /\ UNCHANGED << meetingId, passcode, callControlId, dialerRest, m3Vars, otherVars, inMeeting,
                  isSpeaking, speakSafetyTimer, safetyMs, speakReqs, playing,
                  speakCount, framesIn, sendAudioCount, lastClear,
                  fwdSinceSpeak >>

\* main(): 'Sending meeting ID'
LiveSendMeetingId(ok) ==
  /\ pc = "ivr"
  /\ MainDtmfStep(ok, "id", meetingId \o <<Hash>>, "skip")

\* main(): 'Skip participant ID'
LiveSkipParticipant(ok) ==
  /\ pc = "skip"
  /\ MainDtmfStep(ok, "skip", <<Hash>>,
                  IF passcode # <<>> THEN "pass" ELSE "join")

\* main(): if (passcode) 'Sending passcode'
LiveSendPasscode(ok) ==
  /\ pc = "pass"
  /\ MainDtmfStep(ok, "pass", passcode \o <<Hash>>, "join")

\* main(): last is_alive check, then inMeeting = true (audio gate OPEN)
LiveJoin(ok) ==
  /\ pc = "join"
  /\ IF ok THEN inMeeting' = TRUE /\ pc' = "alive"
           ELSE Exit /\ UNCHANGED inMeeting
  /\ UNCHANGED << meetingId, passcode, callControlId, dtmfLog, dialerRest, m3Vars, otherVars,
                  isSpeaking, speakSafetyTimer, safetyMs, speakReqs, playing,
                  speakCount, framesIn, sendAudioCount, lastClear,
                  fwdSinceSpeak >>

\* main(): the keep-alive loop ends, hangup, cleanup
LiveFinish ==
  /\ pc = "alive"
  /\ Exit
  /\ UNCHANGED << dialerVars, m3Vars, otherVars, inMeeting, isSpeaking, speakSafetyTimer,
                  safetyMs, speakReqs, playing, speakCount, framesIn,
                  sendAudioCount, lastClear, fwdSinceSpeak >>

\* isSpeaking = true; clearTimeout(old); speakSafetyTimer = setTimeout(...,
\* estimatedMs); then the speak request is issued
BeginSpeak(wordCount) ==
  /\ isSpeaking' = TRUE
  /\ speakSafetyTimer' = TRUE
  /\ safetyMs' = EstimatedMs(wordCount)
  /\ speakReqs' = speakReqs + 1
  /\ speakCount' = speakCount + 1
  /\ lastClear' = "none"
  /\ fwdSinceSpeak' = FALSE

\* gemini.onTextResponse(text)
LiveTextResponse(wordCount) ==
  /\ pc # "exited"
  /\ speakCount < MaxSpeaks
  /\ textTurns < MaxTurns
  /\ textTurns' = IF callControlId = Null THEN textTurns ELSE textTurns + 1
  /\ IF callControlId = Null \/ isSpeaking
     THEN UNCHANGED << isSpeaking, speakSafetyTimer, safetyMs, speakReqs,
                       speakCount, lastClear, fwdSinceSpeak >>
     ELSE BeginSpeak(wordCount)
  /\ UNCHANGED << dialerVars, m3Vars, codecVars, regVars, hybridVars,
                  retellVars, compandVars, apiVars, idleEnds, pc, inMeeting,
                  playing, framesIn, sendAudioCount >>

\* the speak request was accepted: playback starts on the call
SpeakAccepted ==
  /\ pc # "exited"
  /\ speakReqs > 0
  /\ speakReqs' = speakReqs - 1
  /\ playing' = playing + 1
  /\ UNCHANGED << dialerVars, m3Vars, otherVars, pc, inMeeting, isSpeaking, speakSafetyTimer,
                  safetyMs, speakCount, framesIn, sendAudioCount, lastClear,
                  fwdSinceSpeak >>

\* a handler that flips the lock instead of clearing it
EndTurnToggle(by) ==
  /\ speakSafetyTimer' = FALSE
  /\ isSpeaking' = ~isSpeaking
  /\ lastClear' = IF isSpeaking THEN by ELSE lastClear

\* if (speakSafetyTimer) clearTimeout(speakSafetyTimer); isSpeaking = false
EndTurn(by) ==
  /\ speakSafetyTimer' = FALSE
  /\ isSpeaking' = FALSE
  /\ lastClear' = IF isSpeaking THEN by ELSE lastClear

\* the speak request threw (after telnyxApi's retries): the catch block
SpeakFailed ==
  /\ pc # "exited"
  /\ speakReqs > 0
  /\ speakReqs' = speakReqs - 1
  /\ EndTurn("failed")
  /\ UNCHANGED << dialerVars, m3Vars, otherVars, pc, inMeeting, safetyMs, playing, speakCount,
                  framesIn, sendAudioCount, fwdSinceSpeak >>

\* POST /webhook with call.speak.ended, sent when a playback ends
SpeakEndedWebhook ==
  /\ pc # "exited"
  /\ playing > 0
  /\ playing' = playing - 1
  /\ EndTurn("ended")
  /\ idleEnds' = IF isSpeaking THEN idleEnds ELSE idleEnds + 1
  /\ UNCHANGED << dialerVars, m3Vars, codecVars, regVars, hybridVars,
                  retellVars, compandVars, apiVars, textTurns, pc, inMeeting, safetyMs,
                  speakReqs, speakCount, framesIn, sendAudioCount,
                  fwdSinceSpeak >>

\* a playback ends and its call.speak.ended webhook never arrives
SpeakEndedLost ==
  /\ pc # "exited"
  /\ playing > 0
  /\ playing' = playing - 1
  /\ UNCHANGED << dialerVars, m3Vars, otherVars, pc, inMeeting, isSpeaking, speakSafetyTimer,
                  safetyMs, speakReqs, speakCount, framesIn, sendAudioCount,
                  lastClear, fwdSinceSpeak >>

\* a safety timer callback that forgets to reset the lock
SafetyTimerFireNoReset ==
  /\ pc # "exited"
  /\ speakSafetyTimer
  /\ speakSafetyTimer' = FALSE
  /\ UNCHANGED << dialerVars, m3Vars, otherVars, pc, inMeeting, isSpeaking, lastClear, safetyMs,
                  speakReqs, playing, speakCount, framesIn, sendAudioCount,
                  fwdSinceSpeak >>

\* the safety timer's callback: if (isSpeaking) isSpeaking = false
SafetyTimerFire ==
  /\ pc # "exited"
  /\ speakSafetyTimer
  /\ speakSafetyTimer' = FALSE
  /\ IF isSpeaking
     THEN isSpeaking' = FALSE /\ lastClear' = "safety"
     ELSE UNCHANGED << isSpeaking, lastClear >>
  /\ UNCHANGED << dialerVars, m3Vars, otherVars, pc, inMeeting, safetyMs, speakReqs, playing,
                  speakCount, framesIn, sendAudioCount, fwdSinceSpeak >>

\* gemini.sendAudio(pcm16k)
SendAudio ==
  /\ sendAudioCount' = sendAudioCount + 1
  /\ fwdSinceSpeak' = TRUE

\* the media handler without the join gate
LiveMediaUngated(track) ==
  /\ pc # "exited"
  /\ framesIn < MaxFrames
  /\ IF track = "inbound"
     THEN /\ framesIn' = framesIn + 1
          /\ IF isSpeaking
             THEN UNCHANGED << sendAudioCount, fwdSinceSpeak >>
             ELSE SendAudio
     ELSE UNCHANGED << framesIn, sendAudioCount, fwdSinceSpeak >>
  /\ UNCHANGED << dialerVars, m3Vars, otherVars, pc, inMeeting, isSpeaking, speakSafetyTimer,
                  safetyMs, speakReqs, playing, speakCount, lastClear >>

\* ws.on('message') of the Telnyx media socket, event 'media'
LiveMedia(track) ==
  /\ pc # "exited"
  /\ framesIn < MaxFrames
  /\ IF track = "inbound"
     THEN /\ framesIn' = framesIn + 1
          /\ IF ~inMeeting \/ isSpeaking
             THEN UNCHANGED << sendAudioCount, fwdSinceSpeak >>
             ELSE SendAudio
     ELSE UNCHANGED << framesIn, sendAudioCount, fwdSinceSpeak >>
  /\ UNCHANGED << dialerVars, m3Vars, otherVars, pc, inMeeting, isSpeaking, speakSafetyTimer,
                  safetyMs, speakReqs, playing, speakCount, lastClear >>

Tracks == {"inbound", "outbound"}

LiveNext ==
  \/ \E ok \in BOOLEAN : LiveDial(ok)
  \/ \E ok \in BOOLEAN : LiveSendMeetingId(ok)
  \/ \E ok \in BOOLEAN : LiveSkipParticipant(ok)
  \/ \E ok \in BOOLEAN : LiveSendPasscode(ok)
  \/ \E ok \in BOOLEAN : LiveJoin(ok)
  \/ LiveFinish
  \/ \E n \in Texts : LiveTextResponse(n)
  \/ SpeakAccepted
  \/ SpeakFailed
  \/ SpeakEndedWebhook
  \/ SpeakEndedLost
  \/ SafetyTimerFire
  \/ \E t \in Tracks : LiveMedia(t)

SpecLive == LiveInit /\ [][LiveNext]_vars

\* the event loop runs a timer callback once its delay has elapsed
FairSpecLive == SpecLive /\ WF_vars(SafetyTimerFire)

(***************************************************************************)
(* bridge.js, second part: the Gemini hybrid agent                         *)
(* (its speak(), webhook and safety timer are the code of                  *)
(* gemini-live-agent.js: EndTurn, SpeakFailed, SpeakEndedWebhook and       *)
(* SafetyTimerFire above model both)                                       *)
(***************************************************************************)

\* main(): POST /calls
HybridDial(ok) ==
  /\ pc = "dial"
  /\ IF ok THEN callControlId' = 1 /\ pc' = "ivr"
           ELSE Exit /\ UNCHANGED callControlId
  /\ UNCHANGED << meetingId, passcode, dtmfLog, dialerRest, m3Vars, otherVars,
                  inMeeting, isSpeaking, speakSafetyTimer, safetyMs,
                  speakReqs, playing, speakCount, framesIn, sendAudioCount,
                  lastClear, fwdSinceSpeak >>

\* main(): send_dtmf `${meetingId}#`
HybridSendMeetingId(ok) ==
  /\ pc = "ivr"
  /\ MainDtmfStep(ok, "id", meetingId \o <<Hash>>, "skip")

\* main(): send_dtmf '#'
HybridSkipParticipant(ok) ==
  /\ pc = "skip"
  /\ MainDtmfStep(ok, "skip", <<Hash>>,
                  IF passcode # <<>> THEN "pass" ELSE "join")

\* main(): if (passcode) send_dtmf `${passcode}#`
HybridSendPasscode(ok) ==
  /\ pc = "pass"
  /\ MainDtmfStep(ok, "pass", passcode \o <<Hash>>, "join")

\* main(): last is_alive check, 'IN THE MEETING', streaming_start
HybridJoin(ok) ==
  /\ pc = "join"
  /\ IF ok THEN pc' = "greet" ELSE Exit
  /\ UNCHANGED << dialerVars, m3Vars, otherVars, inMeeting, isSpeaking,
                  speakSafetyTimer, safetyMs, speakReqs, playing, speakCount,
                  framesIn, sendAudioCount, lastClear, fwdSinceSpeak >>

\* speak(text), up to the await of the speak request
HybridSpeak(wordCount) ==
  IF callControlId = Null \/ isSpeaking
  THEN UNCHANGED << isSpeaking, speakSafetyTimer, safetyMs, speakReqs,
                    speakCount, lastClear, fwdSinceSpeak >>
  ELSE BeginSpeak(wordCount)

\* main(): if (!USE_GEMINI_AUDIO) await speak(`Hi, this is ${AGENT_NAME}. ...`)
HybridGreet ==
  /\ pc = "greet"
  /\ IF ~USE_GEMINI_AUDIO
     THEN HybridSpeak(GreetingWords)
     ELSE UNCHANGED << isSpeaking, speakSafetyTimer, safetyMs, speakReqs,
                       speakCount, lastClear, fwdSinceSpeak >>
  /\ pc' = "alive"
  /\ UNCHANGED << dialerVars, m3Vars, otherVars, inMeeting, playing, framesIn,
                  sendAudioCount >>

\* main(): keep-alive loop ends, hangup, cleanup
HybridFinish ==
  /\ pc = "alive"
  /\ Exit
  /\ UNCHANGED << dialerVars, m3Vars, otherVars, inMeeting, isSpeaking,
                  speakSafetyTimer, safetyMs, speakReqs, playing, speakCount,
                  framesIn, sendAudioCount, lastClear, fwdSinceSpeak >>

\* a poll that runs in both modes
HybridPollAnyMode ==
  /\ pc # "exited"
  /\ speakCount < MaxSpeaks
  /\ responseBuffer > 0 /\ ~isSpeaking
  /\ responseBuffer' = 0
  /\ HybridSpeak(responseBuffer)
  /\ UNCHANGED << dialerVars, m3Vars, auxVars, retellVars, codecVars, regVars, USE_GEMINI_AUDIO,
                  telnyxMediaWs, audioOutCount, pc, inMeeting, playing,
                  framesIn, sendAudioCount >>

\* the 500 ms poll, installed only if (!USE_GEMINI_AUDIO):
\* if (responseBuffer.trim() && !isSpeaking) { responseBuffer = ''; speak(text) }
HybridPoll ==
  /\ pc # "exited"
  /\ speakCount < MaxSpeaks
  /\ ~USE_GEMINI_AUDIO
  /\ responseBuffer > 0 /\ ~isSpeaking
  /\ responseBuffer' = 0
  /\ HybridSpeak(responseBuffer)
  /\ UNCHANGED << dialerVars, m3Vars, auxVars, retellVars, codecVars, regVars, USE_GEMINI_AUDIO,
                  telnyxMediaWs, audioOutCount, pc, inMeeting, playing,
                  framesIn, sendAudioCount >>

\* parts of a modelTurn Gemini sends under the responseModalities the setup
\* message asked for: text only for ['TEXT'], audio (and text) for ['AUDIO']
GeminiParts == IF USE_GEMINI_AUDIO THEN {"text", "audio"} ELSE {"text"}

\* GeminiSession message handler, one part of a modelTurn:
\* part.text -> onResponse: responseBuffer += text (now `words` words);
\* audio inlineData -> onAudioOut: sent on the media socket if connected
HybridGeminiPart(part, words) ==
  /\ pc # "exited"
  /\ part \in GeminiParts
  /\ IF part = "text"
     THEN /\ words >= responseBuffer
          /\ responseBuffer' = words
          /\ UNCHANGED audioOutCount
     ELSE /\ audioOutCount < MaxAudioOut
          /\ audioOutCount' = IF telnyxMediaWs THEN audioOutCount + 1
                                               ELSE audioOutCount
          /\ UNCHANGED responseBuffer
  /\ UNCHANGED << dialerVars, agentVars, m3Vars, auxVars, retellVars, codecVars, regVars,
                  USE_GEMINI_AUDIO, telnyxMediaWs >>

\* wss.on('connection'): telnyxMediaWs = ws
HybridMediaConnect ==
  /\ pc # "exited"
  /\ callControlId # Null
  /\ ~telnyxMediaWs
  /\ telnyxMediaWs' = TRUE
  /\ UNCHANGED << dialerVars, agentVars, m3Vars, auxVars, retellVars, codecVars, regVars,
                  USE_GEMINI_AUDIO, responseBuffer, audioOutCount >>

\* ws.on('message') of the Telnyx media socket: every inbound frame is
\* decoded and handed to gemini.sendAudio
HybridMedia(track) ==
  /\ pc # "exited"
  /\ telnyxMediaWs
  /\ framesIn < MaxFrames
  /\ IF track = "inbound"
     THEN framesIn' = framesIn + 1 /\ SendAudio
     ELSE UNCHANGED << framesIn, sendAudioCount, fwdSinceSpeak >>
  /\ UNCHANGED << dialerVars, m3Vars, otherVars, pc, inMeeting, isSpeaking,
                  speakSafetyTimer, safetyMs, speakReqs, playing, speakCount,
                  lastClear >>

\* process.argv of the hybrid agent and the mode the deployment was built
\* with; module state before main() dials
HybridInit ==
  /\ DialerIdle
  /\ meetingId \in MeetingIds
  /\ passcode \in Passcodes
  /\ callControlId = Null
  /\ dtmfLog = <<>>
  /\ AgentIdle
  /\ NO_SPEAK = FALSE
  /\ CodecIdle
  /\ RegIdle
  /\ RetellIdle
  /\ AuxIdle
  /\ USE_GEMINI_AUDIO \in BOOLEAN
  /\ responseBuffer = 0
  /\ telnyxMediaWs = FALSE
  /\ audioOutCount = 0

HybridNext ==
  \/ \E ok \in BOOLEAN : HybridDial(ok)
  \/ \E ok \in BOOLEAN : HybridSendMeetingId(ok)
  \/ \E ok \in BOOLEAN : HybridSkipParticipant(ok)
  \/ \E ok \in BOOLEAN : HybridSendPasscode(ok)
  \/ \E ok \in BOOLEAN : HybridJoin(ok)
  \/ HybridGreet
  \/ HybridFinish
  \/ HybridPoll
  \/ \E part \in {"text", "audio"}, n \in Texts : HybridGeminiPart(part, n)
  \/ HybridMediaConnect
  \/ SpeakAccepted
  \/ SpeakFailed
  \/ SpeakEndedWebhook
  \/ SpeakEndedLost
  \/ SafetyTimerFire
  \/ \E t \in Tracks : HybridMedia(t)

SpecHybrid == HybridInit /\ [][HybridNext]_vars

(***************************************************************************)
(* m3-voice-agent.js: main(), speakText, the webhook, processAndRespond    *)
(***************************************************************************)

M3Init ==
  /\ DialerIdle
  /\ OtherIdle
  /\ meetingId \in MeetingIds
  /\ passcode \in Passcodes
  /\ callControlId = Null
  /\ dtmfLog = <<>>
  /\ AgentIdle
  /\ NO_SPEAK \in BOOLEAN

agentRest == << inMeeting, isSpeaking, speakSafetyTimer, safetyMs, speakReqs,
                playing, speakCount, framesIn, sendAudioCount, lastClear,
                fwdSinceSpeak >>

\* speakText(text), up to the await of the speak request; `clean` is
\* cleanForTTS(text) being non-empty
SpeakText(clean) ==
  IF callControlId = Null \/ isSpeaking \/ ~clean
  THEN UNCHANGED << isSpeaking, speakReqs, speakCount, lastClear,
                    fwdSinceSpeak >>
  ELSE /\ isSpeaking' = TRUE
       /\ speakReqs' = speakReqs + 1
       /\ speakCount' = speakCount + 1
       /\ lastClear' = "none"
       /\ fwdSinceSpeak' = FALSE

\* main(): POST /calls
M3Dial(ok) ==
  /\ pc = "dial"
  /\ IF ok THEN callControlId' = 1 /\ pc' = "ivr"
           ELSE Exit /\ UNCHANGED callControlId
  /\ UNCHANGED << meetingId, passcode, dtmfLog, dialerRest, m3Vars, otherVars,
                  agentRest >>

\* main(): 'sending meeting ID'
M3SendMeetingId(ok) ==
  /\ pc = "ivr"
  /\ MainDtmfStep(ok, "id", meetingId \o <<Hash>>, "skip")

\* main(): 'Skipping participant ID'
M3SkipParticipant(ok) ==
  /\ pc = "skip"
  /\ MainDtmfStep(ok, "skip", <<Hash>>, "pass")

\* main(): is_alive check, then if (passcode) 'Sending passcode'
M3SendPasscode(ok) ==
  /\ pc = "pass"
  /\ IF passcode # <<>>
     THEN MainDtmfStep(ok, "pass", passcode \o <<Hash>>, "join")
     ELSE /\ IF ok THEN pc' = "join" ELSE Exit
          /\ UNCHANGED << dialerVars, m3Vars, otherVars, agentRest >>

\* main(): last is_alive check, isInMeeting = true, transcription_start
M3Join(ok) ==
  /\ pc = "join"
  /\ IF ok THEN inMeeting' = TRUE /\ pc' = "greet"
           ELSE Exit /\ UNCHANGED inMeeting
  /\ UNCHANGED << dialerVars, m3Vars, otherVars, isSpeaking, speakSafetyTimer,
                  safetyMs, speakReqs, playing, speakCount, framesIn,
                  sendAudioCount, lastClear, fwdSinceSpeak >>

\* main(): if (!NO_SPEAK) await speakText(`Hi, this is ...`)
M3Greet ==
  /\ pc = "greet"
  /\ pc' = "alive"
  /\ IF ~NO_SPEAK
     THEN SpeakText(TRUE)
     ELSE UNCHANGED << isSpeaking, speakReqs, speakCount, lastClear,
                       fwdSinceSpeak >>
  /\ UNCHANGED << dialerVars, m3Vars, otherVars, inMeeting, speakSafetyTimer, safetyMs,
                  playing, framesIn, sendAudioCount >>

\* main(): the keep-alive loop ends (duration over, call dead or
\* isInMeeting reset); if still in the meeting say goodbye and hang up
M3Finish(alive) ==
  /\ pc = "alive"
  /\ Exit
  /\ inMeeting' = (inMeeting /\ alive)
  /\ IF inMeeting /\ alive
     THEN SpeakText(TRUE)
     ELSE UNCHANGED << isSpeaking, speakReqs, speakCount, lastClear,
                       fwdSinceSpeak >>
  /\ UNCHANGED << dialerVars, m3Vars, otherVars, speakSafetyTimer, safetyMs, playing,
                  framesIn, sendAudioCount >>

\* POST /speak (manual testing)
M3ManualSpeak(clean) ==
  /\ pc # "exited"
  /\ speakCount < MaxSpeaks
  /\ callControlId # Null
  /\ SpeakText(clean)
  /\ UNCHANGED << dialerVars, m3Vars, otherVars, pc, inMeeting, speakSafetyTimer,
                  safetyMs, playing, framesIn, sendAudioCount >>

\* POST /webhook, call.transcription with a non-empty final transcript
M3Transcription ==
  /\ pc # "exited"
  /\ transcriptBuffer < MaxSegments
  /\ llmInFlight < MaxLlmInFlight
  /\ IF inMeeting /\ ~isSpeaking /\ ~NO_SPEAK
     THEN /\ transcriptBuffer' = transcriptBuffer + 1
          /\ bufferTimer' = TRUE
     ELSE UNCHANGED << transcriptBuffer, bufferTimer >>
  /\ UNCHANGED << dialerVars, agentVars, otherVars, NO_SPEAK, llmInFlight >>

\* the BUFFER_DELAY timer: processAndRespond() up to the LLM request;
\* `long` is userText.length >= 5
M3BufferTimerFire(long) ==
  /\ pc # "exited"
  /\ bufferTimer
  /\ bufferTimer' = FALSE
  /\ IF transcriptBuffer = 0 \/ ~inMeeting \/ isSpeaking
     THEN UNCHANGED << transcriptBuffer, llmInFlight >>
     ELSE /\ transcriptBuffer' = 0
          /\ llmInFlight' = IF long THEN llmInFlight + 1 ELSE llmInFlight
  /\ UNCHANGED << dialerVars, agentVars, otherVars, NO_SPEAK >>

\* processAndRespond() after the completion: speakText(response) when the
\* response is non-empty, nothing when it is empty or the request threw
M3LlmDone(hasResponse, clean) ==
  /\ pc # "exited"
  /\ llmInFlight > 0
  /\ llmInFlight' = llmInFlight - 1
  /\ IF hasResponse /\ speakCount < MaxSpeaks
     THEN SpeakText(clean)
     ELSE UNCHANGED << isSpeaking, speakReqs, speakCount, lastClear,
                       fwdSinceSpeak >>
  /\ UNCHANGED << dialerVars, otherVars, pc, inMeeting, speakSafetyTimer, safetyMs,
                  playing, framesIn, sendAudioCount, NO_SPEAK,
                  transcriptBuffer, bufferTimer >>

\* speakText: the speak request threw -> isSpeaking = false
M3SpeakFailed ==
  /\ pc # "exited"
  /\ speakReqs > 0
  /\ speakReqs' = speakReqs - 1
  /\ isSpeaking' = FALSE
  /\ lastClear' = IF isSpeaking THEN "failed" ELSE lastClear
  /\ UNCHANGED << dialerVars, m3Vars, otherVars, pc, inMeeting, speakSafetyTimer,
                  safetyMs, playing, speakCount, framesIn, sendAudioCount,
                  fwdSinceSpeak >>

\* POST /webhook, call.speak.ended -> isSpeaking = false
M3SpeakEnded ==
  /\ pc # "exited"
  /\ playing > 0
  /\ playing' = playing - 1
  /\ isSpeaking' = FALSE
  /\ lastClear' = IF isSpeaking THEN "ended" ELSE lastClear
  /\ idleEnds' = IF isSpeaking THEN idleEnds ELSE idleEnds + 1
  /\ UNCHANGED << dialerVars, m3Vars, codecVars, regVars, hybridVars,
                  retellVars, compandVars, apiVars, textTurns, pc, inMeeting,
                  speakSafetyTimer,
                  safetyMs, speakReqs, speakCount, framesIn, sendAudioCount,
                  fwdSinceSpeak >>

\* POST /webhook, call.hangup -> isInMeeting = false
M3HangupWebhook ==
  /\ pc # "exited"
  /\ callControlId # Null
  /\ inMeeting' = FALSE
  /\ UNCHANGED << dialerVars, m3Vars, otherVars, pc, isSpeaking, speakSafetyTimer,
                  safetyMs, speakReqs, playing, speakCount, framesIn,
                  sendAudioCount, lastClear, fwdSinceSpeak >>

M3Next ==
  \/ \E ok \in BOOLEAN : M3Dial(ok)
  \/ \E ok \in BOOLEAN : M3SendMeetingId(ok)
  \/ \E ok \in BOOLEAN : M3SkipParticipant(ok)
  \/ \E ok \in BOOLEAN : M3SendPasscode(ok)
  \/ \E ok \in BOOLEAN : M3Join(ok)
  \/ M3Greet
  \/ \E alive \in BOOLEAN : M3Finish(alive)
  \/ \E clean \in BOOLEAN : M3ManualSpeak(clean)
  \/ M3Transcription
  \/ \E long \in BOOLEAN : M3BufferTimerFire(long)
  \/ \E r \in BOOLEAN, clean \in BOOLEAN : M3LlmDone(r, clean)
  \/ SpeakAccepted
  \/ SpeakEndedLost
  \/ M3SpeakFailed
  \/ M3SpeakEnded
  \/ M3HangupWebhook

SpecM3 == M3Init /\ [][M3Next]_vars

\* the event loop runs the BUFFER_DELAY timer, and the telephony and LLM
\* requests of the agent settle; webhook delivery and the length of the run
\* are not in the agent's hands
FairSpecM3 ==
  /\ SpecM3
  /\ WF_vars(\E long \in BOOLEAN : M3BufferTimerFire(long))
  /\ WF_vars(SpeakAccepted \/ M3SpeakFailed)
  /\ WF_vars(\E r \in BOOLEAN, clean \in BOOLEAN : M3LlmDone(r, clean))

(***************************************************************************)
(* The transcoders of gemini-live-agent.js and of the hybrid agent.        *)
(* PCM buffers are sequences of int16 samples (two bytes each in the code). *)
(***************************************************************************)

\* mu-law bytes a frame is made of: full-scale negative, a mid value, silence
UlawBytes == {0, 213, 255}

RECURSIVE Pow2(_)
Pow2(n) == IF n = 0 THEN 1 ELSE 2 * Pow2(n - 1)

\* ULAW_DECODE[i], as buildTable() fills it
UlawDecode(i) ==
  LET u == 255 - i
      sign == u \div 128
      exponent == (u \div 16) % 8
      mantissa == u % 16
      sample == (mantissa * 8 + 132) * Pow2(exponent) - 132
  IN  IF sign = 1 THEN 0 - sample ELSE sample

\* the for loop of pcmToUlaw that finds the exponent
RECURSIVE ExponentOf(_, _, _)
ExponentOf(sample, exponent, expMask) ==
  IF (sample \div expMask) % 2 = 0 /\ exponent > 0
  THEN ExponentOf(sample, exponent - 1, expMask \div 2)
  ELSE exponent

\* an encoder that does not clamp the magnitude at MAX
PcmToUlawNoClamp(sample) ==
  LET sign == IF sample < 0 THEN 128 ELSE 0
      mag == IF sample < 0 THEN 0 - sample ELSE sample
      biased == mag + 132
      exponent == ExponentOf(biased, 7, 16384)
      mantissa == (biased \div Pow2(exponent + 3)) % 16
  IN  255 - (sign + exponent * 16 + mantissa)

\* pcmToUlaw(sample)
PcmToUlaw(sample) ==
  LET sign == IF sample < 0 THEN 128 ELSE 0
      mag == IF sample < 0 THEN 0 - sample ELSE sample
      clipped == IF mag > 32635 THEN 32635 ELSE mag
      biased == clipped + 132
      exponent == ExponentOf(biased, 7, 16384)
      mantissa == (biased \div Pow2(exponent + 3)) % 16
  IN  255 - (sign + exponent * 16 + mantissa)

\* (prev + s1) >> 1; with prev undefined the sum is NaN and NaN >> 1 is 0
Interpolate(prev, s1) ==
  IF prev = NaN THEN 0 ELSE (prev + s1) \div 2

\* a decoder that starts every frame from silence instead of the carry
UlawToPcm16kNoCarry(ulawBuf, last) ==
  [ k \in 1..(2 * Len(ulawBuf)) |->
      LET i == (k + 1) \div 2
          s1 == UlawDecode(ulawBuf[i])
          prev == IF i > 1 THEN UlawDecode(ulawBuf[i - 1]) ELSE 0
      IN  IF k % 2 = 1 THEN Interpolate(prev, s1) ELSE s1 ]

\* ulawToPcm16k(ulawBuf) of gemini-live-agent.js: the returned buffer
UlawToPcm16kLive(ulawBuf, last) ==
  [ k \in 1..(2 * Len(ulawBuf)) |->
      LET i == (k + 1) \div 2
          s1 == UlawDecode(ulawBuf[i])
          prev == IF i > 1 THEN UlawDecode(ulawBuf[i - 1]) ELSE last
      IN  IF k % 2 = 1 THEN Interpolate(prev, s1) ELSE s1 ]

\* _lastSample = ULAW_DECODE[ulawBuf[n - 1]], undefined for an empty buffer
NextLastSample(ulawBuf) ==
  IF Len(ulawBuf) = 0 THEN NaN ELSE UlawDecode(ulawBuf[Len(ulawBuf)])

\* ulawToPcm16k(ulawBuf) of the hybrid agent
UlawToPcm16kHybrid(ulawBuf) ==
  [ k \in 1..(2 * Len(ulawBuf)) |->
      LET i == (k + 1) \div 2
          s1 == UlawDecode(ulawBuf[i])
          s2 == IF i < Len(ulawBuf) THEN UlawDecode(ulawBuf[i + 1]) ELSE s1
      IN  IF k % 2 = 1 THEN s1 ELSE (s1 + s2) \div 2 ]

\* pcm24kToUlaw8k(pcmBuf): every third sample
Pcm24kToUlaw8k(pcmBuf) ==
  [ i \in 1..(Len(pcmBuf) \div 3) |-> PcmToUlaw(pcmBuf[3 * (i - 1) + 1]) ]

\* frames of 0..MaxFrameLen mu-law samples
Frames == UNION { [1..n -> UlawBytes] : n \in 0..MaxFrameLen }

\* the next inbound frame of the stream is decoded (by either agent's decoder)
DecodeFrame(f) ==
  /\ streams > 0
  /\ streamFresh' = FALSE
  /\ UNCHANGED streams
  /\ prevFrame' = frame
  /\ frame' = f
  /\ pcmLive' = UlawToPcm16kLive(f, lastSample)
  /\ lastSample' = NextLastSample(f)
  /\ pcmHybrid' = UlawToPcm16kHybrid(f)
  /\ ulawBack' = <<>>
  /\ encodedFrom' = "none"
  /\ UNCHANGED << dialerVars, agentVars, m3Vars, auxVars, retellVars, regVars, hybridVars >>

\* wss.on('connection'): Telnyx opens a media stream (after streaming_start,
\* and again after the streaming restart that follows the join); the handler
\* installs the callbacks and leaves _lastSample as it is
MediaConnect ==
  /\ streams < MaxStreams
  /\ streams' = streams + 1
  /\ streamFresh' = TRUE
  /\ prevFrame' = <<>>
  /\ frame' = <<>>
  /\ pcmLive' = <<>>
  /\ pcmHybrid' = <<>>
  /\ ulawBack' = <<>>
  /\ encodedFrom' = "none"
  /\ UNCHANGED << dialerVars, agentVars, m3Vars, auxVars, retellVars, regVars,
                  hybridVars, lastSample >>

\* the encoder is applied to a decoder's output
EncodeBack(from) ==
  /\ encodedFrom = "none"
  /\ encodedFrom' = from
  /\ ulawBack' = Pcm24kToUlaw8k(IF from = "live" THEN pcmLive ELSE pcmHybrid)
  /\ UNCHANGED << dialerVars, agentVars, m3Vars, auxVars, retellVars, regVars, hybridVars, lastSample,
                  prevFrame, frame, pcmLive, pcmHybrid, streams, streamFresh >>

CodecInit ==
  /\ DialerIdle
  /\ meetingId = <<>>
  /\ passcode = <<>>
  /\ callControlId = Null
  /\ dtmfLog = <<>>
  /\ AgentIdle
  /\ NO_SPEAK = FALSE
  /\ OtherIdle

CodecNext ==
  \/ MediaConnect
  \/ \E f \in Frames : DecodeFrame(f)
  \/ \E from \in {"live", "hybrid"} : EncodeBack(from)

SpecCodec == CodecInit /\ [][CodecNext]_vars

(***************************************************************************)
(* pcmToUlaw and ULAW_DECODE on their own: one 16-bit sample is encoded,   *)
(* or one byte is looked up in the table.  The hybrid agent's copies       *)
(* (bridge.js) are the same code.                                          *)
(***************************************************************************)
\* what readInt16LE returns
Int16 == (0 - 32768)..32767

\* what a Buffer holds at one index
Bytes == 0..255

\* pcmToUlaw(pcmBuf.readInt16LE(..))
CompandEncode ==
  /\ cOp = "none"
  /\ cOp' = "encode"
  /\ cOut' = PcmToUlaw(cIn)
  /\ UNCHANGED << dialerVars, agentVars, m3Vars, codecVars, regVars,
                  hybridVars, retellVars, apiVars, idleEnds, textTurns, cIn >>

\* ULAW_DECODE[ulawBuf[i]]
CompandDecode ==
  /\ cOp = "none"
  /\ cIn \in Bytes
  /\ cOp' = "decode"
  /\ cOut' = UlawDecode(cIn)
  /\ UNCHANGED << dialerVars, agentVars, m3Vars, codecVars, regVars,
                  hybridVars, retellVars, apiVars, idleEnds, textTurns, cIn >>

CompandInit ==
  /\ DialerIdle
  /\ meetingId = <<>>
  /\ passcode = <<>>
  /\ callControlId = Null
  /\ dtmfLog = <<>>
  /\ AgentIdle
  /\ NO_SPEAK = FALSE
  /\ CodecIdle
  /\ RegIdle
  /\ HybridIdle
  /\ RetellIdle
  /\ ApiIdle
  /\ idleEnds = 0
  /\ textTurns = 0
  /\ cIn \in Int16
  /\ cOp = "none"
  /\ cOut = 0

CompandNext == CompandEncode \/ CompandDecode

SpecCompand == CompandInit /\ [][CompandNext]_vars

(***************************************************************************)
(* The Telnyx REST helpers with retry: api (m3-voice-agent.js), telnyxApi  *)
(* (gemini-live-agent.js) and tAPI (bridge.js).  The three are the same    *)
(* loop; they differ in the default of retries.                            *)
(***************************************************************************)
\* retries = 3 (tAPI), retries = 5 (api, telnyxApi); no caller passes another
RetryDefaults == {3, 5}

\* how one fetch attempt can end:
\*   "ok"            res.ok, body parsed
\*   "ECONNRESET"    fetch rejects, err.cause.code === 'ECONNRESET'
\*   "fetch failed"  fetch rejects with TypeError('fetch failed')
\*   "http"          !res.ok, the thrown message quotes the status and body
\*   "http quoting fetch failed"
\*                   !res.ok with a body whose text contains 'fetch failed'
\*   "json"          res.json() rejects
FetchOutcomes ==
  { "ok", "ECONNRESET", "fetch failed", "http", "http quoting fetch failed",
    "json" }

\* err.cause?.code === 'ECONNRESET' || err.message.includes('fetch failed')
RetryCondition(outcome) ==
  outcome \in { "ECONNRESET", "fetch failed", "http quoting fetch failed" }

\* the helper is called: attempt = 0 and the first fetch is issued
RestCall ==
  /\ apiPc = "idle"
  /\ apiAttempt' = 0
  /\ apiPc' = "fetch"
  /\ apiRequests' = 1
  /\ UNCHANGED << dialerVars, agentVars, m3Vars, codecVars, regVars,
                  hybridVars, retellVars, compandVars, idleEnds, textTurns, apiRetries, apiDelays,
                  apiErrors >>

\* the awaited fetch / res.json() settles: return data, or the catch block
RestSettle(outcome) ==
  /\ apiPc = "fetch"
  /\ IF outcome = "ok"
     THEN /\ apiPc' = "data"
          /\ UNCHANGED << apiDelays, apiErrors >>
     ELSE /\ apiErrors' = Append(apiErrors, outcome)
          /\ IF apiAttempt < apiRetries /\ RetryCondition(outcome)
             THEN /\ apiPc' = "sleep"
                  /\ apiDelays' = Append(apiDelays, 2000 * (apiAttempt + 1))
             ELSE /\ apiPc' = "error"
                  /\ UNCHANGED apiDelays
  /\ UNCHANGED << dialerVars, agentVars, m3Vars, codecVars, regVars,
                  hybridVars, retellVars, compandVars, idleEnds, textTurns, apiRetries, apiAttempt,
                  apiRequests >>

\* the sleep is over: continue, attempt++, the next fetch is issued
RestWake ==
  /\ apiPc = "sleep"
  /\ apiAttempt' = apiAttempt + 1
  /\ apiPc' = "fetch"
  /\ apiRequests' = apiRequests + 1
  /\ UNCHANGED << dialerVars, agentVars, m3Vars, codecVars, regVars,
                  hybridVars, retellVars, compandVars, idleEnds, textTurns, apiRetries, apiDelays,
                  apiErrors >>

RestInit ==
  /\ DialerIdle
  /\ meetingId = <<>>
  /\ passcode = <<>>
  /\ callControlId = Null
  /\ dtmfLog = <<>>
  /\ AgentIdle
  /\ NO_SPEAK = FALSE
  /\ CodecIdle
  /\ RegIdle
  /\ HybridIdle
  /\ RetellIdle
  /\ CompandIdle
  /\ idleEnds = 0
  /\ textTurns = 0
  /\ apiRetries \in RetryDefaults
  /\ apiAttempt = 0
  /\ apiPc = "idle"
  /\ apiRequests = 0
  /\ apiDelays = <<>>
  /\ apiErrors = <<>>

RestNext ==
  \/ RestCall
  \/ \E outcome \in FetchOutcomes : RestSettle(outcome)
  \/ RestWake

SpecApi == RestInit /\ [][RestNext]_vars

(***************************************************************************)
(* bridge.js with several sessions: the registry, the webhook endpoint and *)
(* the media socket.  Each session's dialer is reduced to its              *)
(* callControlId and state.                                                *)
(***************************************************************************)

RegSessions == { regOrder[i] : i \in 1..Len(regOrder) }

\* sessions.delete(id)
RegDelete(order, id) == SelectSeq(order, LAMBDA x : x # id)

\* POST /api/call: sessions.set(sessionId, session); dial() -> DIALING
RegApiCall ==
  /\ regCreated < MaxSessions
  /\ regCreated' = regCreated + 1
  /\ regOrder' = Append(regOrder, regCreated + 1)
  /\ regState' = [regState EXCEPT ![regCreated + 1] = "DIALING"]
  /\ regDialing' = regDialing \cup {regCreated + 1}
  /\ UNCHANGED << regCcid, regLegs, regAudio, regFrames, regDispatch >>
  /\ UNCHANGED << dialerVars, agentVars, m3Vars, auxVars, retellVars, codecVars, hybridVars >>

\* dial(): POST /calls resolved; this.callControlId = the new leg
RegDialOk(s) ==
  /\ s \in regDialing
  /\ regDialing' = regDialing \ {s}
  /\ regLegs' = regLegs + 1
  /\ regCcid' = [regCcid EXCEPT ![s] = regLegs + 1]
  /\ UNCHANGED << regOrder, regCreated, regState, regAudio, regFrames,
                  regDispatch >>
  /\ UNCHANGED << dialerVars, agentVars, m3Vars, auxVars, retellVars, codecVars, hybridVars >>

\* handleEvent of session s, and the 'ended' listener of POST /api/call
RegHandleEvent(s, eventType) ==
  CASE eventType = "call.answered" ->
         /\ regState' = [regState EXCEPT ![s] = "ANSWERED"]
         /\ UNCHANGED regOrder
    [] eventType = "call.hangup" ->
         /\ regState' = [regState EXCEPT ![s] = "ENDED"]
         /\ regOrder' = RegDelete(regOrder, s)
    [] OTHER -> UNCHANGED << regState, regOrder >>

\* positions of the Map entries whose dialer.callControlId === callControlId
RegMatches(ccid) ==
  { i \in 1..Len(regOrder) : regCcid[regOrder[i]] = ccid }

\* the webhook loop without the comparison: every session handles the event
RegWebhookBroadcast(eventType, ccid) ==
  /\ regDispatch' = [ ccid |-> ccid,
                      matching |-> { regOrder[i] : i \in RegMatches(ccid) },
                      to |-> RegSessions ]
  /\ IF eventType = "call.answered"
     THEN /\ regState' = [ s \in SessionIds |->
                             IF s \in RegSessions THEN "ANSWERED"
                                                  ELSE regState[s] ]
          /\ UNCHANGED regOrder
     ELSE IF eventType = "call.hangup"
     THEN /\ regState' = [ s \in SessionIds |->
                             IF s \in RegSessions THEN "ENDED"
                                                  ELSE regState[s] ]
          /\ regOrder' = <<>>
     ELSE UNCHANGED << regState, regOrder >>
  /\ UNCHANGED << regCreated, regCcid, regDialing, regLegs, regAudio,
                  regFrames >>
  /\ UNCHANGED << dialerVars, agentVars, m3Vars, auxVars, retellVars, codecVars, hybridVars >>

\* POST /webhook/telnyx: for (const [id, session] of sessions)
\*   if (session.dialer.callControlId === callControlId) { handleEvent; break }
RegWebhook(eventType, ccid) ==
  /\ LET m == RegMatches(ccid)
     IN  IF m = {}
         THEN /\ regDispatch' = [ ccid |-> ccid, matching |-> {}, to |-> {} ]
              /\ UNCHANGED << regState, regOrder >>
         ELSE LET first == regOrder[CHOOSE i \in m : \A j \in m : i <= j]
              IN  /\ regDispatch' =
                       [ ccid |-> ccid,
                         matching |-> { regOrder[i] : i \in m },
                         to |-> {first} ]
                  /\ RegHandleEvent(first, eventType)
  /\ UNCHANGED << regCreated, regCcid, regDialing, regLegs, regAudio,
                  regFrames >>
  /\ UNCHANGED << dialerVars, agentVars, m3Vars, auxVars, retellVars, codecVars, hybridVars >>

\* MediaBridge.handleAudio(audioData, track) of one session
HandleAudio(buffer, leg, track) ==
  IF track = "inbound" THEN Append(buffer, leg) ELSE buffer

\* ws.on('message') of the /media socket, event 'media': a frame of call
\* leg `leg` is handed to the bridge of every session in the Map
RegMedia(leg, track) ==
  /\ regFrames < MaxBridgeFrames
  /\ \E s \in RegSessions : regCcid[s] = leg
  /\ regFrames' = regFrames + 1
  /\ regAudio' = [ s \in SessionIds |->
                     IF s \in RegSessions
                     THEN HandleAudio(regAudio[s], leg, track)
                     ELSE regAudio[s] ]
  /\ UNCHANGED << regOrder, regCreated, regCcid, regState, regDialing,
                  regLegs, regDispatch >>
  /\ UNCHANGED << dialerVars, agentVars, m3Vars, auxVars, retellVars, codecVars, hybridVars >>

\* POST /api/call/:id/hangup: 404 for an unknown id; hangup(), delete
RegHangup(s) ==
  /\ s \in RegSessions
  /\ regState' = [regState EXCEPT ![s] = "ENDED"]
  /\ regOrder' = RegDelete(regOrder, s)
  /\ UNCHANGED << regCreated, regCcid, regDialing, regLegs, regAudio,
                  regFrames, regDispatch >>
  /\ UNCHANGED << dialerVars, agentVars, m3Vars, auxVars, retellVars, codecVars, hybridVars >>

\* call_control_id of a webhook: a leg of this server, a leg it never
\* created, JSON null, or no such field
RegEventIds == (1..(MaxSessions + 1)) \cup {Null, Undefined}

RegEvents == {"call.answered", "call.hangup", "call.dtmf.received"}

RegInit == CodecInit

RegNext ==
  \/ RegApiCall
  \/ \E s \in SessionIds : RegDialOk(s)
  \/ \E e \in RegEvents, c \in RegEventIds : RegWebhook(e, c)
  \/ \E l \in 1..MaxSessions, t \in Tracks : RegMedia(l, t)
  \/ \E s \in SessionIds : RegHangup(s)

SpecRegistry == RegInit /\ [][RegNext]_vars

(***************************************************************************)
(* server.js: the Retell bridge.  One connection; handleTranscript decides *)
(* on the last utterance, and a dtmf action is pressed by a loop that      *)
(* sends one press_digit tool call, waits 200 ms, and goes on.             *)
(***************************************************************************)
MaxWsSent == 5
MaxDtmfLoops == 2
MaxLlmStreams == 1

RetellMeetingIds == { <<"8","5">>, <<"8"," ","5">> }
RetellPasscodes == { <<>>, <<"1">> }

\* what the last utterance is, by the IVR_PATTERNS its text matches
Utterances ==
  { {}, {"CONNECTED"}, {"WELCOME"}, {"MEETING_ID"}, {"PARTICIPANT_ID"},
    {"PASSCODE"}, {"INVALID"}, {"INVALID", "MEETING_ID"} }

\* number.replace(/\D/g, '')
StripNonDigits(number) == SelectSeq(number, LAMBDA ch : ch \in Digit)

\* getNextDigits: all digits plus '#', as one list
GetNextDigits(number) == Append(StripNonDigits(number), "#")

NoAction == [ action |-> "null", digits |-> <<>> ]
WaitAction == [ action |-> "wait", digits |-> <<>> ]
DtmfAction(digits) == [ action |-> "dtmf", digits |-> digits ]

\* handleTranscript: the action it returns for the last utterance
IvrAction(role, u) ==
  IF role # "user" THEN NoAction
  ELSE IF "CONNECTED" \in u THEN NoAction
  ELSE IF "WELCOME" \in u THEN WaitAction
  ELSE IF "MEETING_ID" \in u THEN DtmfAction(GetNextDigits(rMeetingId))
  ELSE IF "PARTICIPANT_ID" \in u THEN DtmfAction(<<"#">>)
  ELSE IF "PASSCODE" \in u
    THEN IF rPasscode # <<>> THEN DtmfAction(GetNextDigits(rPasscode))
                             ELSE DtmfAction(<<"#">>)
  ELSE IF "INVALID" \in u /\ ivrRetry + 1 > 2
    THEN [ action |-> "hangup", digits |-> <<>> ]
  ELSE IF "INVALID" \in u /\ ivrState = "ENTERING_ID"
    THEN DtmfAction(GetNextDigits(rMeetingId))
  ELSE IF ivrState \notin {"CONNECTED", "WAITING"} THEN WaitAction
  ELSE NoAction

\* handleTranscript: ivr.state after the call
IvrStateAfter(role, u) ==
  IF role # "user" THEN ivrState
  ELSE IF "CONNECTED" \in u THEN "CONNECTED"
  ELSE IF "WELCOME" \in u THEN "WAITING"
  ELSE IF "MEETING_ID" \in u THEN "ENTERING_ID"
  ELSE IF "PARTICIPANT_ID" \in u THEN ivrState
  ELSE IF "PASSCODE" \in u THEN "ENTERING_PASSCODE"
  ELSE ivrState

\* handleTranscript: ivr.retryCount after the call
IvrRetryAfter(role, u) ==
  IF /\ role = "user"
     /\ u \cap {"CONNECTED", "WELCOME", "MEETING_ID", "PARTICIPANT_ID",
                "PASSCODE"} = {}
     /\ "INVALID" \in u
  THEN ivrRetry + 1 ELSE ivrRetry

\* the frames written to the socket: rid is the response_id they carry,
\* ivr the handler's state when they were written
PressDigit(digit, rid, ivr) ==
  [ kind |-> "press_digit", digits |-> <<digit>>, rid |-> rid, ivr |-> ivr ]
Plain(kind, rid, ivr) ==
  [ kind |-> kind, digits |-> <<>>, rid |-> rid, ivr |-> ivr ]

\* Retell hangs up once it has been sent end_call: true
RetellEnded == \E k \in 1..Len(wsSent) : wsSent[k].kind = "end_call"

RemoveAt(q, i) == SubSeq(q, 1, i - 1) \o SubSeq(q, i + 1, Len(q))

\* ws.on('message'): response_required / reminder_required, up to the
\* handler's first await
RetellResponseRequired(role, u) ==
  LET act == IvrAction(role, u)
      st == IvrStateAfter(role, u)
      rid == responseCount + 1
  IN
  /\ ~RetellEnded
  /\ Len(wsSent) < MaxWsSent
  /\ responseCount' = rid
  /\ ivrState' = st
  /\ ivrRetry' = IvrRetryAfter(role, u)
  /\ CASE act.action = "dtmf" ->
            /\ Len(dtmfLoops) < MaxDtmfLoops
            /\ wsSent' = Append(wsSent, PressDigit(Head(act.digits), rid, st))
            /\ dtmfLoops' = Append(dtmfLoops, [ rid |-> rid,
                                                digits |-> Tail(act.digits) ])
            /\ UNCHANGED << greetingSent, llmStreams >>
       [] act.action = "wait" ->
            /\ wsSent' = Append(wsSent, Plain("complete", rid, st))
            /\ UNCHANGED << dtmfLoops, greetingSent, llmStreams >>
       [] act.action = "hangup" ->
            /\ wsSent' = Append(wsSent, Plain("end_call", rid, st))
            /\ UNCHANGED << dtmfLoops, greetingSent, llmStreams >>
       [] OTHER ->
            IF st = "CONNECTED" /\ ~greetingSent
            THEN /\ greetingSent' = TRUE
                 /\ wsSent' = Append(wsSent, Plain("greeting", rid, st))
                 /\ UNCHANGED << dtmfLoops, llmStreams >>
            ELSE /\ Len(llmStreams) < MaxLlmStreams
                 /\ llmStreams' = Append(llmStreams, rid)
                 /\ UNCHANGED << dtmfLoops, greetingSent, wsSent >>
  /\ UNCHANGED << dialerVars, agentVars, m3Vars, auxVars, codecVars, regVars,
                  hybridVars, rMeetingId, rPasscode >>

\* the dtmf loop after its 200 ms wait: the next digit, in its own message
RetellPressNext(i) ==
  /\ ~RetellEnded
  /\ i \in 1..Len(dtmfLoops)
  /\ dtmfLoops[i].digits # <<>>
  /\ Len(wsSent) < MaxWsSent
  /\ wsSent' = Append(wsSent, PressDigit(Head(dtmfLoops[i].digits),
                                         dtmfLoops[i].rid, ivrState))
  /\ dtmfLoops' = [ dtmfLoops EXCEPT ![i].digits = Tail(@) ]
  /\ UNCHANGED << dialerVars, agentVars, m3Vars, auxVars, codecVars, regVars,
                  hybridVars, rMeetingId, rPasscode, ivrState, ivrRetry,
                  greetingSent, responseCount, llmStreams >>

\* a dtmf loop that ends without its completion frame
RetellLoopDoneSilent(i) ==
  /\ ~RetellEnded
  /\ i \in 1..Len(dtmfLoops)
  /\ dtmfLoops[i].digits = <<>>
  /\ dtmfLoops' = RemoveAt(dtmfLoops, i)
  /\ UNCHANGED << dialerVars, agentVars, m3Vars, auxVars, codecVars, regVars,
                  hybridVars, rMeetingId, rPasscode, ivrState, ivrRetry,
                  greetingSent, responseCount, llmStreams, wsSent >>

\* the dtmf loop is through its list: "Send completion"
RetellLoopDone(i) ==
  /\ ~RetellEnded
  /\ i \in 1..Len(dtmfLoops)
  /\ dtmfLoops[i].digits = <<>>
  /\ Len(wsSent) < MaxWsSent
  /\ wsSent' = Append(wsSent, Plain("complete", dtmfLoops[i].rid, ivrState))
  /\ dtmfLoops' = RemoveAt(dtmfLoops, i)
  /\ UNCHANGED << dialerVars, agentVars, m3Vars, auxVars, codecVars, regVars,
                  hybridVars, rMeetingId, rPasscode, ivrState, ivrRetry,
                  greetingSent, responseCount, llmStreams >>

\* for await (const chunk of stream): a chunk with content is passed on
RetellLlmChunk(i) ==
  /\ ~RetellEnded
  /\ i \in 1..Len(llmStreams)
  /\ Len(wsSent) < MaxWsSent - 1
  /\ wsSent' = Append(wsSent, Plain("llm", llmStreams[i], ivrState))
  /\ UNCHANGED << dialerVars, agentVars, m3Vars, auxVars, codecVars, regVars,
                  hybridVars, rMeetingId, rPasscode, ivrState, ivrRetry,
                  greetingSent, dtmfLoops, responseCount, llmStreams >>

\* the stream is over ("Send completion signal"), or the completion request
\* or the stream threw ("Send error recovery response")
RetellLlmEnd(i, ok) ==
  /\ ~RetellEnded
  /\ i \in 1..Len(llmStreams)
  /\ Len(wsSent) < MaxWsSent
  /\ wsSent' = Append(wsSent, Plain(IF ok THEN "complete" ELSE "llm_error",
                                    llmStreams[i], ivrState))
  /\ llmStreams' = RemoveAt(llmStreams, i)
  /\ UNCHANGED << dialerVars, agentVars, m3Vars, auxVars, codecVars, regVars,
                  hybridVars, rMeetingId, rPasscode, ivrState, ivrRetry,
                  greetingSent, dtmfLoops, responseCount >>

\* handleRetellConnection(ws, callId, metadata)
RetellInit ==
  /\ DialerIdle
  /\ meetingId = <<>>
  /\ passcode = <<>>
  /\ callControlId = Null
  /\ dtmfLog = <<>>
  /\ AgentIdle
  /\ NO_SPEAK = FALSE
  /\ CodecIdle
  /\ RegIdle
  /\ HybridIdle
  /\ AuxIdle
  /\ rMeetingId \in RetellMeetingIds
  /\ rPasscode \in RetellPasscodes
  /\ ivrState = "WAITING"
  /\ ivrRetry = 0
  /\ greetingSent = FALSE
  /\ dtmfLoops = <<>>
  /\ wsSent = <<>>
  /\ responseCount = 0
  /\ llmStreams = <<>>

RetellNext ==
  \/ \E role \in {"user", "agent"}, u \in Utterances :
       RetellResponseRequired(role, u)
  \/ \E i \in 1..MaxDtmfLoops : RetellPressNext(i)
  \/ \E i \in 1..MaxDtmfLoops : RetellLoopDone(i)
  \/ \E i \in 1..MaxLlmStreams : RetellLlmChunk(i)
  \/ \E i \in 1..MaxLlmStreams, ok \in BOOLEAN : RetellLlmEnd(i, ok)

SpecRetell == RetellInit /\ [][RetellNext]_vars

(***************************************************************************)
(* worker/src/index.js: the Retell socket of the Cloudflare worker.  No    *)
(* IVR handling; every response is one frame.                              *)
(***************************************************************************)
\* webSocketMessage, case 'response_required', up to
\* await this.generateResponse(history)
WorkerResponseRequired ==
  /\ Len(llmStreams) < MaxLlmStreams
  /\ Len(wsSent) < MaxWsSent
  /\ responseCount' = responseCount + 1
  /\ llmStreams' = Append(llmStreams, responseCount + 1)
  /\ UNCHANGED << dialerVars, agentVars, m3Vars, auxVars, codecVars, regVars,
                  hybridVars, rMeetingId, rPasscode, ivrState, ivrRetry,
                  greetingSent, dtmfLoops, wsSent >>

\* generateResponse returns the model's text, or one of its fallback
\* sentences: it catches its own errors
GenerateOutcomes == {"response", "fallback"}

\* generateResponse returned and the response frame is sent
WorkerGenerated(i, text) ==
  /\ i \in 1..Len(llmStreams)
  /\ wsSent' = Append(wsSent, Plain(text, llmStreams[i], ivrState))
  /\ llmStreams' = RemoveAt(llmStreams, i)
  /\ UNCHANGED << dialerVars, agentVars, m3Vars, auxVars, codecVars, regVars,
                  hybridVars, rMeetingId, rPasscode, ivrState, ivrRetry,
                  greetingSent, dtmfLoops, responseCount >>

\* webSocketMessage, case 'reminder_required'
WorkerReminder ==
  /\ Len(wsSent) + Len(llmStreams) < MaxWsSent
  /\ responseCount' = responseCount + 1
  /\ wsSent' = Append(wsSent, Plain("reminder", responseCount + 1, ivrState))
  /\ UNCHANGED << dialerVars, agentVars, m3Vars, auxVars, codecVars, regVars,
                  hybridVars, rMeetingId, rPasscode, ivrState, ivrRetry,
                  greetingSent, dtmfLoops, llmStreams >>

WorkerInit == CodecInit

WorkerNext ==
  \/ WorkerResponseRequired
  \/ \E i \in 1..MaxLlmStreams, text \in GenerateOutcomes : WorkerGenerated(i, text)
  \/ WorkerReminder

SpecWorker == WorkerInit /\ [][WorkerNext]_vars

(***************************************************************************)
(* Claims about ZoomDialer (checked under Spec).                           *)
(***************************************************************************)
IsDigits(s) == \A i \in 1..Len(s) : s[i] \in Digit

\* send_dtmf requests that carried `field` into call leg c
FieldSends(field, c) ==
  { i \in 1..Len(dtmfLog) : dtmfLog[i].field = field /\ dtmfLog[i].call = c }

DigitsSent == [ i \in 1..Len(dtmfLog) |-> dtmfLog[i].digits ]

\* C1: for a digit identifier D and passcode P every identifier batch is
\* exactly D+'#', every passcode batch is exactly P+'#' ('#' alone when P is
\* empty), and within one call attempt no field is transmitted by more than
\* one send_dtmf action, even when call.answered is delivered twice.
C1_OneActionPerField ==
  IsDigits(meetingId) =>
    /\ \A i \in 1..Len(dtmfLog) :
         dtmfLog[i].digits =
           IF dtmfLog[i].field = "id" THEN meetingId \o <<Hash>>
                                      ELSE passcode \o <<Hash>>
    /\ \A c \in 1..callsCreated :
         /\ Cardinality(FieldSends("id", c)) <= 1
         /\ Cardinality(FieldSends("pass", c)) <= 1

\* C2: with identifier "83914076399" and no passcode the session is joined
\* only after exactly three batches were sent: "83914076399#", "#", "#".
C2_ThreeBatchesThenJoined ==
  (meetingId = ScenarioId /\ passcode = <<>> /\ joinedCount > 0) =>
    /\ Len(dtmfLog) >= 3
    /\ SubSeq(DigitsSent, 1, 3) =
         << ScenarioId \o <<Hash>>, <<Hash>>, <<Hash>> >>
    /\ (state = "IN_MEETING" => Len(dtmfLog) = 3)

\* C3: retryCount never exceeds maxRetries, no more than maxRetries re-dials
\* are issued, and the failure number maxRetries+1 comes after exactly
\* maxRetries re-dials and puts the session in FAILED.
C3_RetryBound ==
  /\ [](retryCount <= maxRetries /\ dialCount <= maxRetries + 1)
  /\ [][ (failures = maxRetries /\ failures' = maxRetries + 1) =>
           (state' = "FAILED" /\ dialCount' = maxRetries + 1) ]_vars

C3_Witness ==
  failures = maxRetries + 1 /\ state = "FAILED" /\ dialCount = maxRetries + 1

TimerFires ==
  \/ \E t \in answerTimers : AnswerTimerFire(t)
  \/ RetryTimerFire
  \/ EnterTimerFire
  \/ GroupTimerFire
  \/ JoinTimerFire

\* C7: once the session is ENDED or FAILED, no timer firing changes its
\* state, sends DTMF, dials or emits 'joined'.
C7_NoStaleTimerActs ==
  [][ (state \in {"ENDED", "FAILED"} /\ TimerFires) =>
        /\ state' = state
        /\ dtmfLog' = dtmfLog
        /\ dialCount' = dialCount
        /\ joinedCount' = joinedCount ]_vars

\* a call.hangup webhook that reaches the dialer, or a hangup() that returns
HangupHandled ==
  \/ \E c \in EventIds :
       Sid \in sessions /\ callControlId = c /\ Webhook("call.hangup", c)
  \/ HangupRequest /\ callControlId = Null
  \/ HangupDone

\* C8: from every state, a handled call.hangup event and a completed
\* hangup() request (whether or not a call leg exists, whether or not the
\* REST request failed) leave the session ENDED and out of the registry.
C8_HangupEnds ==
  [][ HangupHandled => (state' = "ENDED" /\ Sid \notin sessions') ]_vars

\* hangup() completed before any call leg existed
C8_Witness ==
  /\ state = "ENDED" /\ Sid \notin sessions
  /\ callControlId = Null /\ dialInFlight > 0

(***************************************************************************)
(* Claims about the agents' media bridge and turn lock.                    *)
(***************************************************************************)

\* C4: in gemini-live-agent, while the join is not confirmed (inMeeting is
\* false: dialing and every DTMF phase) no inbound frame reaches
\* gemini.sendAudio: the number of sendAudio calls is zero.
C4_NoAudioBeforeJoin ==
  ~inMeeting => sendAudioCount = 0

\* inbound frames arrived during the passcode phase and none was forwarded
C4_Witness ==
  pc = "pass" /\ ~inMeeting /\ framesIn > 0 /\ sendAudioCount = 0

\* C5: every sendAudio call happens in a state where isSpeaking is false
\* (checked on the hybrid agent's media handler).
C5_NoForwardWhileSpeaking ==
  [][ sendAudioCount' # sendAudioCount => ~isSpeaking ]_vars

\* the word counts a speak action can be given
SpokenWords == Texts \cup {GreetingWords}

\* C6: a speak action that sets isSpeaking arms the safety timer with
\* wordCount * 400 + 5000 ms; the lock is never held forever: whether or not
\* call.speak.ended is delivered, isSpeaking is cleared for as long as the
\* process runs; the timer's callback clears a set lock; and with the lock
\* clear an inbound frame of a joined call is forwarded again.
C6_SafetyTimerClearsLock ==
  /\ [][ (~isSpeaking /\ isSpeaking') =>
           /\ speakSafetyTimer'
           /\ \E n \in SpokenWords : safetyMs' = EstimatedMs(n) ]_vars
  /\ [](isSpeaking => speakSafetyTimer)
  /\ [][ SafetyTimerFire => ~isSpeaking' ]_vars
  /\ isSpeaking ~> (~isSpeaking \/ pc = "exited")
  /\ [][ (LiveMedia("inbound") /\ inMeeting /\ ~isSpeaking) =>
           sendAudioCount' = sendAudioCount + 1 ]_vars

\* the last speak was accepted, no call.speak.ended came for it, the safety
\* timer cleared the lock and an inbound frame was forwarded afterwards
C6_Witness ==
  /\ lastClear = "safety" /\ ~isSpeaking /\ playing > 0
  /\ fwdSinceSpeak /\ safetyMs = EstimatedMs(1)

\* C9: at most one speak request is in flight (issued and neither failed
\* nor played to its end) at any time.
C9_OneSpeakInFlight ==
  speakReqs + playing <= 1

\* C10: in m3-voice-agent, once a speak request has succeeded and its
\* playback is over without call.speak.ended having been delivered,
\* isSpeaking is eventually cleared (for as long as the agent runs and
\* stays in the meeting).
C10_LockEventuallyCleared ==
  (isSpeaking /\ speakReqs = 0 /\ playing = 0 /\ inMeeting) ~>
    (~isSpeaking \/ ~inMeeting \/ pc = "exited")

(***************************************************************************)
(* Claims about the transcoders (checked under SpecCodec).                 *)
(***************************************************************************)

\* C11: for a frame of N mu-law samples, pcm24kToUlaw8k applied to the
\* output of ulawToPcm16k yields exactly N samples.
C11_RoundTripLength ==
  encodedFrom = "live" => Len(ulawBack) = Len(frame)

\* C12: for consecutive frames A and B, A non-empty, the first output sample
\* of decoding B is floor((last decoded sample of A + first decoded sample
\* of B) / 2), for the decoder of gemini-live-agent and for the decoder of
\* the hybrid agent.
C12_BoundaryContinuity ==
  (Len(prevFrame) > 0 /\ Len(frame) > 0) =>
    LET carried == (UlawDecode(prevFrame[Len(prevFrame)])
                      + UlawDecode(frame[1])) \div 2
    IN  /\ pcmLive[1] = carried
        /\ pcmHybrid[1] = carried

(***************************************************************************)
(* Claims about the registry with several sessions (SpecRegistry).         *)
(***************************************************************************)

\* C13: a webhook event is handled by exactly the session whose
\* callControlId equals the event's call_control_id and by no other; an
\* event whose call_control_id matches no session, or that carries none,
\* changes no session's state and no registry entry.
C13_WebhookRouting ==
  /\ [](/\ regDispatch.to \subseteq regDispatch.matching
        /\ Cardinality(regDispatch.to) <= 1
        /\ (regDispatch.matching # {} => regDispatch.to # {}))
  /\ [][ \A e \in RegEvents, c \in RegEventIds :
           RegWebhook(e, c) =>
             /\ \A s \in SessionIds :
                  (regCcid[s] # c \/ s \notin RegSessions) =>
                    /\ regState'[s] = regState[s]
                    /\ (s \in RegSessions <=>
                          s \in { regOrder'[i] : i \in 1..Len(regOrder') })
             /\ ((RegMatches(c) = {} \/ c = Undefined) =>
                   UNCHANGED << regState, regOrder, regCcid >>) ]_vars

\* two sessions with their own call legs are registered; the hangup of the
\* second call ended the second session and left the first untouched
C13_Witness ==
  /\ regDispatch.to = {2} /\ regDispatch.ccid = regCcid[2]
  /\ regState[2] = "ENDED" /\ regOrder = <<1>>
  /\ regState[1] = "DIALING"
  /\ regCcid[1] # Null /\ regCcid[2] # Null /\ regCcid[1] # regCcid[2]

\* C14: a media frame reaches only the bridge of the session whose call
\* produced it: every frame in a session's audio buffer is of its own leg.
C14_MediaIsolation ==
  \A s \in SessionIds :
    \A k \in 1..Len(regAudio[s]) : regAudio[s][k] = regCcid[s]

(***************************************************************************)
(* Further claims about ZoomDialer (checked under Spec).                   *)
(***************************************************************************)

\* C15: a start request whose identifier or passcode is not digits only
\* creates no session, places no dial request and sends no DTMF.
C15_DigitsOnly ==
  ~(IsDigits(meetingId) /\ IsDigits(passcode)) =>
    /\ sessions = {}
    /\ dialCount = 0
    /\ dtmfLog = <<>>

\* C16: a session that exhausts its retries emits 'failed' exactly once,
\* with the last failure reason and retries = maxRetries; after that no dial
\* request is issued and no timer of the session acts any more.
C16_SingleFailedReport ==
  /\ [](Len(failedLog) <= 1)
  /\ [][ Len(failedLog') > Len(failedLog) =>
           failedLog'[Len(failedLog')] =
             [reason |-> lastReason', retries |-> maxRetries] ]_vars
  /\ [][ Len(failedLog) > 0 => dialCount' = dialCount ]_vars
  /\ [][ (Len(failedLog) > 0 /\ TimerFires) =>
           /\ state' = state
           /\ dtmfLog' = dtmfLog
           /\ joinedCount' = joinedCount ]_vars

\* C17: when POST /calls of dial() fails with retryCount below maxRetries
\* the session goes to IDLE, not FAILED, with one backoff timer armed; when
\* that timer fires on the idle session dial() moves it to DIALING and
\* issues a new POST /calls.
C17_DialErrorRetries ==
  /\ [][ (DialFail /\ retryCount < maxRetries) =>
           /\ state' = "IDLE"
           /\ retryCount' = retryCount + 1
           /\ retryTimers' = retryTimers + 1
           /\ failedLog' = failedLog ]_vars
  /\ [][ (RetryTimerFire /\ state = "IDLE") =>
           /\ state' = "DIALING"
           /\ dialCount' = dialCount + 1 ]_vars

\* the first POST /calls failed, the backoff timer fired, the session is
\* dialing again
C17_Witness ==
  /\ lastReason = "DIAL_ERROR" /\ failures = 1 /\ retryCount = 1
  /\ state = "DIALING" /\ dialCount = 2 /\ callsCreated = 0

(***************************************************************************)
(* Further claims about the agents.                                        *)
(***************************************************************************)

C19_BatchedField ==
  \A k \in 1..Len(wsSent) :
    wsSent[k].kind = "press_digit" =>
      wsSent[k].digits \in { GetNextDigits(rMeetingId),
                             GetNextDigits(rPasscode), <<"#">> }

(***************************************************************************)
(* Claims about listen-only mode of m3-voice-agent (checked under SpecM3). *)
(***************************************************************************)
\* C20: with NO_SPEAK = true the only steps that issue a speak request to the
\* call are POST /speak requests made from outside: the agent itself speaks
\* neither on joining, nor in response to a transcript, nor when the run ends.
C20_ListenOnly ==
  [][ (NO_SPEAK /\ speakCount' > speakCount)
        => \E clean \in BOOLEAN : M3ManualSpeak(clean) ]_vars

(***************************************************************************)
(* Claims about the inbound decoder of gemini-live-agent (SpecCodec).      *)
(***************************************************************************)
\* C21: decoding a non-empty frame of n samples with a numeric carry c gives
\* exactly 2n samples, the odd ones (out[2i+1], 0-based) being the decoded
\* input samples and the even ones floor((prev_i + decode(in[i])) / 2) with
\* prev_0 = c and prev_i = decode(in[i-1]); afterwards the carry is the decode
\* of the frame's last sample, so it depends on the preceding frame only.
C21_DecoderLaw ==
  [][ ((\E f \in Frames : DecodeFrame(f)) /\ frame' # <<>> /\ lastSample # NaN)
        => LET n == Len(frame')
               dec(i) == UlawDecode(frame'[i])
               prev(i) == IF i = 1 THEN lastSample ELSE dec(i - 1)
           IN  /\ Len(pcmLive') = 2 * n
               /\ \A i \in 1..n :
                    /\ pcmLive'[2 * i] = dec(i)
                    /\ 2 * pcmLive'[2 * i - 1] <= prev(i) + dec(i)
                    /\ prev(i) + dec(i) < 2 * pcmLive'[2 * i - 1] + 2
               /\ lastSample' = dec(n) ]_vars

\* a frame of two samples or more was decoded after a frame that left a
\* non-zero carry, and the carry shows in its first output sample
C21_Witness ==
  /\ Len(frame) >= 2
  /\ prevFrame # <<>>
  /\ UlawDecode(prevFrame[Len(prevFrame)]) # 0
  /\ Len(pcmLive) = 2 * Len(frame)
  /\ pcmLive[1] # UlawDecode(frame[1]) \div 2
  /\ lastSample = UlawDecode(frame[Len(frame)])

\* C23: at the start of every media stream (a new media socket connection,
\* the restart after joining included) the decoder's carry is zero: nothing
\* is carried from one stream into the next.
C23_CarryResetAtStreamStart == streamFresh => lastSample = 0

(***************************************************************************)
(* Claims about the companding functions (checked under SpecCompand).      *)
(***************************************************************************)
\* the reference G.711 mu-law compression: magnitude clamped at 32635 and
\* biased by 0x84, segment = position of the highest set bit, 4 mantissa bits
\* below it, sign bit on top, all eight bits inverted
RefMagnitude(x) ==
  LET mag == IF x < 0 THEN 0 - x ELSE x
  IN  (IF mag > 32635 THEN 32635 ELSE mag) + 132

HighestBit(x) == CHOOSE b \in 0..15 : Pow2(b) <= x /\ x < Pow2(b + 1)

RefUlawEncode(x) ==
  LET m == RefMagnitude(x)
      segment == HighestBit(m) - 7
      mant == (m - Pow2(HighestBit(m))) \div Pow2(HighestBit(m) - 4)
      code == (IF x < 0 THEN 128 ELSE 0) + 16 * segment + mant
  IN  255 - code

\* the reference expansion: ((2 * mantissa + 33) * 2^segment - 33), scaled to
\* 16 bits, negated when the sign bit of the inverted byte is set
RefUlawExpand(b) ==
  LET u == 255 - b
      segment == (u % 128) \div 16
      mant == u % 16
      mag == 4 * ((2 * mant + 33) * Pow2(segment) - 33)
  IN  IF u >= 128 THEN 0 - mag ELSE mag

\* C22: for every 16-bit sample pcmToUlaw returns the reference G.711 mu-law
\* code, and for every byte 0..255 the ULAW_DECODE entry is the reference
\* expansion.
C22_BitExactCompanding ==
  /\ cOp = "encode" => cOut = RefUlawEncode(cIn)
  /\ cOp = "decode" => cOut = RefUlawExpand(cIn)

\* a sample beyond the clamp was encoded (to the code of the largest
\* negative magnitude)
C22_Witness ==
  /\ cOp = "encode"
  /\ cIn < 0 - 32635
  /\ cOut = 0

(***************************************************************************)
(* Claims about the REST helpers (checked under SpecApi).                  *)
(***************************************************************************)
\* C25: a helper call issues at most retries + 1 requests; it sleeps and
\* retries only after a transient transport error (connection reset, fetch
\* failed); its backoff grows exponentially up to a bound, that is every
\* delay is twice the one before or, once capped, equal to it; and when it
\* gives up it has an error to surface.
C25_BoundedExponentialRetry ==
  /\ apiRequests <= apiRetries + 1
  /\ apiPc = "sleep" =>
       apiErrors[Len(apiErrors)] \in {"ECONNRESET", "fetch failed"}
  /\ \A k \in 2..Len(apiDelays) :
       \/ apiDelays[k] = 2 * apiDelays[k - 1]
       \/ apiDelays[k] = apiDelays[k - 1]
  /\ apiPc = "error" => apiErrors # <<>>

(***************************************************************************)
(* Claims about the turn lock (SpecLive; the hybrid agent's webhook is the *)
(* same code, m3-voice-agent's is M3SpeakEnded).                           *)
(***************************************************************************)
\* the program state a webhook handler can touch, the record of what
\* cleared the lock included
TurnState ==
  << isSpeaking, speakSafetyTimer, safetyMs, speakReqs, speakCount, lastClear,
     fwdSinceSpeak, pc, inMeeting, framesIn, sendAudioCount, NO_SPEAK,
     transcriptBuffer, bufferTimer, llmInFlight >>

\* C26: a call.speak.ended event handled while isSpeaking is already false
\* changes nothing: the lock stays clear, no timer is armed, and so a second
\* event leaves the state the first one left.
C26_EndTurnIdempotent ==
  [][ ((SpeakEndedWebhook \/ M3SpeakEnded) /\ ~isSpeaking)
        => /\ ~isSpeaking'
           /\ ~speakSafetyTimer'
           /\ UNCHANGED TurnState ]_vars

\* two call.speak.ended events were handled with the lock already clear
C26_Witness ==
  /\ idleEnds >= 2
  /\ ~isSpeaking
  /\ ~speakSafetyTimer

(***************************************************************************)
(* Further claims about ZoomDialer (checked under Spec).                   *)
(***************************************************************************)
\* the identifier batches sent so far
IdSends == { i \in 1..Len(dtmfLog) : dtmfLog[i].field = "id" }

\* C24: handling call.answered cancels the answer timeout of that call and
\* arms the settle delay; a cancelled timeout is never armed again (a later
\* dial arms the timeout of a new call leg), and a NO_ANSWER failure comes
\* only from an armed timeout firing in DIALING, so none comes from the
\* answered call.  An identifier batch is sent only by a settle delay
\* running out, and a settle delay is armed only by an answered event.
C24_AnsweredCancelsTimeout ==
  /\ [](answerTimeout = callControlId)
  /\ [](Cardinality(IdSends) + enterTimers = answeredCount)
  /\ [][ /\ answeredCount' > answeredCount
            => /\ callControlId \notin answerTimers'
               /\ state' = "ANSWERED"
               /\ enterTimers' = enterTimers + 1
         /\ \A t \in answerTimers' \ answerTimers : t > callsCreated
         /\ (failures' > failures /\ lastReason' = "NO_ANSWER")
            => /\ state = "DIALING"
               /\ \E t \in answerTimers : t \notin answerTimers'
         /\ Len(dtmfLog') > Len(dtmfLog) /\ dtmfLog'[Len(dtmfLog')].field = "id"
            => /\ enterTimers > 0
               /\ enterTimers' = enterTimers - 1 ]_vars

\* the call was answered while DIALING, its timeout is gone, the settle
\* delay has run out and the identifier batch went out, with no failure
C24_Witness ==
  /\ answeredCount = 1
  /\ state = "ENTER_MEETING_ID"
  /\ Cardinality(IdSends) = 1
  /\ enterTimers = 0
  /\ answerTimers = {}
  /\ failures = 0

\* C27: the session moves along IDLE -> DIALING -> ANSWERED ->
\* ENTER_MEETING_ID -> ENTER_PASSCODE -> IN_MEETING one state at a time:
\* each of these states is entered only from the one before it (DIALING also
\* from FAILED), whatever event or timer causes the step.
C27_ForwardOnly ==
  [][ state' # state =>
        /\ state' = "IN_MEETING" => state = "ENTER_PASSCODE"
        /\ state' = "ENTER_PASSCODE" => state = "ENTER_MEETING_ID"
        /\ state' = "ENTER_MEETING_ID" => state = "ANSWERED"
        /\ state' = "ANSWERED" => state = "DIALING"
        /\ state' = "DIALING" => state \in {"IDLE", "FAILED"} ]_vars

\* C30: the session is IN_MEETING (and 'joined' was emitted) only if no
\* send_dtmf request of the current call attempt was rejected: a failed
\* identifier or passcode batch prevents the join confirmation.
C30_JoinNeedsBothBatches ==
  state = "IN_MEETING" =>
    \A r \in dtmfRejected : r.call # callControlId

(***************************************************************************)
(* Claims about the Retell LLM socket (SpecRetell; the worker: SpecWorker).*)
(***************************************************************************)
\* frames with content_complete: true
ContentComplete(f) ==
  f.kind \in {"complete", "end_call", "greeting", "llm_error", "response",
              "fallback", "reminder"}

CompleteFrames(rid) ==
  { k \in 1..Len(wsSent) : wsSent[k].rid = rid /\ ContentComplete(wsSent[k]) }

\* the handler of this response_id has not finished
Pending(rid) ==
  \/ \E i \in 1..Len(dtmfLoops) : dtmfLoops[i].rid = rid
  \/ \E i \in 1..Len(llmStreams) : llmStreams[i] = rid

\* C28: every response_required / reminder_required message gets exactly one
\* frame with content_complete = true carrying its response_id: none while
\* its handler is still pressing digits or awaiting the LLM, one once the
\* handler is through, on the DTMF, wait, hangup, greeting, LLM and LLM-error
\* paths alike.
C28_OneCompletePerResponse ==
  \A rid \in 1..responseCount :
    Cardinality(CompleteFrames(rid)) = IF Pending(rid) THEN 0 ELSE 1

\* a DTMF response and a streamed LLM response have both run to their end
C28_Witness ==
  /\ responseCount >= 2
  /\ dtmfLoops = <<>>
  /\ llmStreams = <<>>
  /\ \E k \in 1..Len(wsSent) : wsSent[k].kind = "press_digit"
  /\ \E k \in 1..Len(wsSent) : wsSent[k].kind = "llm"
  /\ \A rid \in 1..responseCount : Cardinality(CompleteFrames(rid)) = 1

\* C29: a frame with spoken content (the greeting, LLM text) is written only
\* when the IVR handler is CONNECTED, and the greeting is written at most
\* once per connection.
C29_SilentUntilConnected ==
  /\ \A k \in 1..Len(wsSent) :
       wsSent[k].kind \in {"greeting", "llm"} => wsSent[k].ivr = "CONNECTED"
  /\ Cardinality({ k \in 1..Len(wsSent) : wsSent[k].kind = "greeting" }) <= 1

(***************************************************************************)
(* Claims about the dialer after it has joined, its hangup and its retries *)
(* (Spec).                                                                 *)
(***************************************************************************)
\* C31: once the dialer is IN_MEETING, a step leaves it IN_MEETING or takes
\* it to ENDED, whatever webhook arrives (a duplicate or late call.answered
\* included), and issues no send_dtmf request.
C31_InMeetingIsFinal ==
  [][ state = "IN_MEETING" =>
        /\ state' \in {"IN_MEETING", "ENDED"}
        /\ dtmfLog' = dtmfLog ]_vars

(***************************************************************************)
(* Claims about the call legs of a session (SpecLegs).                     *)
(***************************************************************************)
\* C32: once a hangup request of the session has completed, the call leg the
\* session holds was asked to hang up; this includes a hangup() that ran
\* while dial() was awaiting the call-create response.
C32_HangupLeavesNoLeg ==
  hangupCompleted /\ callControlId # Null => callControlId \in hangupAsked

\* C33: an answer timer that fails the call as NO_ANSWER is never the timer
\* of a leg a call.answered webhook was posted for before the timer fired,
\* the webhook that arrives before dial() processed the call-create response
\* included.
C33_AnsweredNeverNoAnswer ==
  [][ (failures' # failures /\ lastReason' = "NO_ANSWER") =>
        (answerTimers \ answerTimers') \cap answeredLegs = {} ]_vars

\* C35: a session that was ENDED while a retry backoff was pending issues no
\* further call-create request, and the backoff timer's dial() leaves the
\* state ENDED; dial() issues a call-create request only from IDLE or FAILED,
\* and at most one such request is outstanding.
C35_EndedNeverRedials ==
  /\ [][ /\ endedPending => dialCount' = dialCount
         /\ (state = "ENDED" /\ retryTimers' < retryTimers) => state' = "ENDED"
         /\ dialCount' # dialCount => state \in {"IDLE", "FAILED"} ]_vars
  /\ [](dialInFlight <= 1)

\* the backoff timer has fired on a session that was ended while it was armed
C35_Witness ==
  /\ endedPending
  /\ state = "ENDED"
  /\ retryTimers = 0
  /\ retryCount > 0
  /\ dialInFlight = 0

(***************************************************************************)
(* Claims about the turn lock of the agents (SpecLive, SpecHybrid).        *)
(***************************************************************************)
\* Speak actions are served in order: the lock belongs to the newest one, a
\* playback that ends is the oldest one playing, a request that fails is the
\* oldest one awaited.
\* C34: a step that clears the turn lock by call.speak.ended or by a failed
\* speak request is the event of the action holding the lock: no other speak
\* action is in flight, so a late event of an earlier action never clears
\* the lock of a later one.
C34_LockClearedByOwnEvent ==
  [][ (isSpeaking /\ ~isSpeaking') =>
        CASE lastClear' = "ended" -> speakReqs + playing = 1
          [] lastClear' = "failed" -> speakReqs = 1
          [] OTHER -> TRUE ]_vars

\* C36: every text response the model completes while the call exists is
\* followed by a speak request of its own, at once or later: whenever more
\* text responses have arrived than speak requests were issued, the missing
\* requests are eventually issued.
C36_TextEventuallySpoken ==
  (textTurns > speakCount) ~> (textTurns <= speakCount)

(***************************************************************************)
(* Claims about IVRHandler.handleTranscript (SpecRetell).                  *)
(***************************************************************************)
\* C37: once the IVR handler is CONNECTED, handleTranscript returns null and
\* leaves the state CONNECTED for every utterance it may be given: speech
\* heard in the meeting produces no DTMF, wait or hangup action.
C37_ConnectedIsFinal ==
  ivrState = "CONNECTED" =>
    \A u \in Utterances :
      /\ IvrAction("user", u) = NoAction
      /\ IvrStateAfter("user", u) = "CONNECTED"

\* C38: before CONNECTED, every user utterance that matches the INVALID
\* pattern increments retryCount, and the one that makes it exceed 2 (the
\* third) returns the hangup action.
C38_InvalidIsCounted ==
  ivrState # "CONNECTED" =>
    \A u \in Utterances :
      ("INVALID" \in u /\ "CONNECTED" \notin u) =>
        /\ IvrRetryAfter("user", u) = ivrRetry + 1
        /\ ivrRetry + 1 > 2 => IvrAction("user", u).action = "hangup"

====
